---- MODULE Spec2Model ----
(***************************************************************************)
(* A model of the qrbill crate's reference-number codecs (esr.rs,          *)
(* iso11649.rs) and of its Swico S1 billing information (billing_infos).   *)
(*                                                                         *)
(* A Rust String is modelled as a sequence of characters, each character   *)
(* a one-character TLA+ string; the character "e_acute" stands for U+00E9, *)
(* whose UTF-8 encoding is two bytes long, and "sharp_s" for U+00DF.       *)
(* str::len() is therefore ByteLength, chars().count() is Len, and a slice *)
(* by byte offsets panics when an offset falls inside a character.         *)
(***************************************************************************)
EXTENDS Integers, Sequences, FiniteSets, TLC

VARIABLES
    esr_input,      \* the String handed to an Esr constructor
    esr_op,         \* which Esr constructor ran ("none" before)
    esr_result,     \* its outcome
    esr_shown,      \* Some(the Esr formatted with Display), None before
    iso_input,      \* the &str handed to Iso11649::new
    iso_op,         \* which Iso11649 method ran ("none" before)
    iso_result,     \* what it returned
    builder,        \* S1Builder.structured_set
    last_call,      \* the component of the latest S1Builder setter call
    calls,          \* the setter calls made on the S1Builder, where recorded
    bi,             \* the BillingInfos the caller holds (None before one is made)
    bi_prev,        \* the BillingInfos the latest operation was applied to
    sw_op,          \* the latest billing_infos operation ("none" before)
    sw_arg,         \* its string argument
    sw_result       \* how it ended (kind and error of the Result)

esr_vars == <<esr_input, esr_op, esr_result, esr_shown>>
iso_vars == <<iso_input, iso_op, iso_result>>
sw_vars == <<builder, last_call, calls, bi, bi_prev, sw_op, sw_arg, sw_result>>
vars == <<esr_vars, iso_vars, sw_vars>>

----------------------------------------------------------------------------
(* Characters and strings *)

DIGITS == <<"0", "1", "2", "3", "4", "5", "6", "7", "8", "9">>
LOWER == <<"a", "b", "c", "d", "e", "f", "g", "h", "i", "j", "k", "l", "m",
           "n", "o", "p", "q", "r", "s", "t", "u", "v", "w", "x", "y", "z">>
UPPER == <<"A", "B", "C", "D", "E", "F", "G", "H", "I", "J", "K", "L", "M",
           "N", "O", "P", "Q", "R", "S", "T", "U", "V", "W", "X", "Y", "Z">>

\* The characters outside ASCII that the model's inputs use.
MultiByte == {"e_acute", "sharp_s"}

Range(s) == {s[i] : i \in DOMAIN s}

IndexOf(ch, s) == CHOOSE i \in DOMAIN s : s[i] = ch

\* UTF-8 width of a character.
ByteLen(ch) == IF ch \in MultiByte THEN 2 ELSE 1

\* str::len(): the length in bytes.
ByteLength(s) == Len(s) + Cardinality({i \in DOMAIN s : s[i] \in MultiByte})

Min(S) == CHOOSE x \in S : \A y \in S : x <= y
Max(S) == CHOOSE x \in S : \A y \in S : x >= y

\* The string of n copies of ch.
Rep(ch, n) == [i \in 1..n |-> ch]

RECURSIVE Flatten(_)
Flatten(ss) == IF ss = <<>> THEN <<>> ELSE Head(ss) \o Flatten(Tail(ss))

\* All strings over alphabet A of length at most n.
RECURSIVE StringsUpTo(_, _)
StringsUpTo(A, n) ==
    IF n = 0 THEN {<<>>}
    ELSE LET shorter == StringsUpTo(A, n - 1)
         IN  shorter \cup {Append(s, a) : s \in {t \in shorter : Len(t) = n - 1}, a \in A}

\* Option<T>: <<>> is None, <<x>> is Some(x).
None == <<>>
Some(x) == <<x>>

\* Result<T, E> and an abort (panic) of the call.
Ok(v) == [kind |-> "Ok", val |-> v, err |-> ""]
Err(e) == [kind |-> "Err", val |-> <<>>, err |-> e]
Panic == [kind |-> "Panic", val |-> <<>>, err |-> ""]
NoResult == [kind |-> "None", val |-> <<>>, err |-> ""]

\* The `?` operator over a sequence of results: the first one that is not Ok,
\* or ok when all are.
FirstFailure(results, ok) ==
    IF \A k \in DOMAIN results : results[k].kind = "Ok" THEN ok
    ELSE results[CHOOSE k \in DOMAIN results :
                    /\ results[k].kind # "Ok"
                    /\ \A j \in 1..(k - 1) : results[j].kind = "Ok"]

\* char::to_digit(10)
IsDigit10(ch) == ch \in Range(DIGITS)
ToDigit10(ch) == IndexOf(ch, DIGITS) - 1

\* char::is_digit(36) / char::to_digit(36): ASCII digits and letters only.
IsDigit36(ch) == ch \in Range(DIGITS) \cup Range(LOWER) \cup Range(UPPER)
ToDigit36(ch) ==
    IF ch \in Range(DIGITS) THEN IndexOf(ch, DIGITS) - 1
    ELSE IF ch \in Range(LOWER) THEN IndexOf(ch, LOWER) + 9
    ELSE IndexOf(ch, UPPER) + 9

\* u32::to_string / usize::to_string
RECURSIVE to_string(_)
to_string(n) ==
    IF n < 10 THEN <<DIGITS[n + 1]>>
    ELSE Append(to_string(n \div 10), DIGITS[(n % 10) + 1])

\* str::replace(' ', "")
RemoveSpaces(s) == SelectSeq(s, LAMBDA ch : ch # " ")

\* str::trim_start_matches('0')
TrimStartZeros(s) ==
    LET kept == {i \in DOMAIN s : s[i] # "0"}
    IN  IF kept = {} THEN <<>> ELSE SubSeq(s, Min(kept), Len(s))

----------------------------------------------------------------------------
(* The state of a part of the crate that a specification leaves alone *)

EsrIdle ==
    /\ esr_input = <<>>
    /\ esr_op = "none"
    /\ esr_result = NoResult
    /\ esr_shown = None

IsoIdle ==
    /\ iso_input = <<>>
    /\ iso_op = "none"
    /\ iso_result = NoResult

SwicoIdle ==
    /\ builder = [c \in {} |-> <<>>]
    /\ last_call = "none"
    /\ calls = <<>>
    /\ bi = None
    /\ bi_prev = None
    /\ sw_op = "none"
    /\ sw_arg = <<>>
    /\ sw_result = NoResult

----------------------------------------------------------------------------
(* esr.rs *)

ESR_MAX_LENGTH == 27
ESR_MAX_NO_CHECKSUM == 25
ESR_MIN_LENGTH == 5

\* The table with its last two entries exchanged.
EsrTable_exchanged == <<0, 9, 4, 6, 8, 2, 7, 1, 5, 3>>

EsrTable == <<0, 9, 4, 6, 8, 2, 7, 1, 3, 5>>

\* The loop of checksum(): the carry after the characters of `number`, or -1
\* when a character is not a decimal digit (the `?` returns at the first one).
RECURSIVE EsrCarry(_, _)
EsrCarry(number, c) ==
    IF number = <<>> THEN c
    ELSE IF ~IsDigit10(Head(number)) THEN -1
    ELSE EsrCarry(Tail(number), EsrTable[((ToDigit10(Head(number)) + c) % 10) + 1])

checksum(number) ==
    LET c == EsrCarry(number, 0)
    IN  IF c = -1 THEN Err("InvalidFormat") ELSE Ok(to_string((10 - c) % 10))

\* is_checksum_valid with the check digit compared modulo 5.
is_checksum_valid_mod_5(number) ==
    IF number = <<>> \/ ByteLen(number[Len(number)]) # 1 THEN Panic
    ELSE IF checksum(SubSeq(number, 1, Len(number) - 1)).kind # "Ok"
         THEN checksum(SubSeq(number, 1, Len(number) - 1))
    ELSE IF ~IsDigit10(number[Len(number)])
            \/ ToDigit10(number[Len(number)]) % 5
                 # ToDigit10(checksum(SubSeq(number, 1, Len(number) - 1)).val[1]) % 5
         THEN Err("InvalidChecksum")
    ELSE Ok(<<>>)

\* number[number.len() - 1..] and number[..number.len() - 1]: byte offsets, so
\* the call aborts when number is empty (usize underflow) or when its last
\* character is longer than one byte.
is_checksum_valid(number) ==
    IF number = <<>> \/ ByteLen(number[Len(number)]) # 1 THEN Panic
    ELSE LET check_digit == <<number[Len(number)]>>
             sample == SubSeq(number, 1, Len(number) - 1)
             res == checksum(sample)
         IN  IF res.kind # "Ok" THEN res
             ELSE IF check_digit # res.val THEN Err("InvalidChecksum")
             ELSE Ok(<<>>)

EsrStrip(raw) == TrimStartZeros(RemoveSpaces(raw))

try_with_checksum(raw) ==
    LET number == EsrStrip(raw)
    IN  IF ByteLength(number) > ESR_MAX_LENGTH \/ ByteLength(number) < ESR_MIN_LENGTH
        THEN Err("InvalidLength")
        ELSE LET v == is_checksum_valid(number)
             IN  IF v.kind # "Ok" THEN v ELSE Ok(number)

\* Esr::try_new (deprecated): no lower limit on the length. char::is_numeric
\* is true of the decimal digits and of no other character of the inputs.
try_new(raw) ==
    LET number == EsrStrip(raw)
    IN  IF ByteLength(number) > ESR_MAX_LENGTH THEN Err("InvalidLength")
        ELSE IF \E i \in DOMAIN number : ~IsDigit10(number[i]) THEN Err("InvalidFormat")
        ELSE LET v == is_checksum_valid(number)
             IN  IF v.kind # "Ok" THEN v ELSE Ok(number)

\* slice.chunks(n)
Chunks(s, n) ==
    [k \in 1..((Len(s) + n - 1) \div n) |->
        SubSeq(s, (k - 1) * n + 1, Min({k * n, Len(s)}))]

\* [String]::join(sep)
Join(ss, sep) ==
    Flatten([k \in DOMAIN ss |-> IF k = 1 THEN ss[k] ELSE sep \o ss[k]])

\* Display with the first 27 characters of the padded string taken.
fmt_first_27(number) ==
    LET padded == SubSeq(Rep("0", 27) \o number, 1, 27)
    IN  SubSeq(padded, 1, 2) \o <<" ">> \o Join(Chunks(SubSeq(padded, 3, 27), 5), <<" ">>)

\* impl Display for Esr; number is the stored string, of ASCII digits, so the
\* byte slices are character slices.
fmt(number) ==
    LET padded == Rep("0", 27) \o number
        last_27 == SubSeq(padded, Len(padded) - 26, Len(padded))
    IN  SubSeq(last_27, 1, 2) \o <<" ">> \o Join(Chunks(SubSeq(last_27, 3, 27), 5), <<" ">>)

\* try_without_checksum with the upper limit one lower.
try_without_checksum_24(raw) ==
    LET value == EsrStrip(raw)
    IN  IF ByteLength(value) > ESR_MAX_NO_CHECKSUM - 1 \/ ByteLength(value) < ESR_MIN_LENGTH
        THEN Err("InvalidLength")
        ELSE LET new_checksum == checksum(value)
             IN  IF new_checksum.kind # "Ok" THEN new_checksum
                 ELSE Ok(value \o new_checksum.val)

try_without_checksum(raw) ==
    LET value == EsrStrip(raw)
    IN  IF ByteLength(value) > ESR_MAX_NO_CHECKSUM \/ ByteLength(value) < ESR_MIN_LENGTH
        THEN Err("InvalidLength")
        ELSE LET new_checksum == checksum(value)
             IN  IF new_checksum.kind # "Ok" THEN new_checksum
                 ELSE LET number == value \o new_checksum.val
                          v == is_checksum_valid(number)
                      IN  IF v.kind # "Ok" THEN v ELSE Ok(number)

----------------------------------------------------------------------------
(* Inputs of the Esr constructors *)

MaxEsrBody == 28
MaxEsrSuffix == 2

\* "24075237" (esr.rs test checksum_correct) followed by the digits of
\* "210000000000045842312240456" (test try_from_ok).
EsrPattern == <<"2", "4", "0", "7", "5", "2", "3", "7", "2", "1", "0", "0", "0",
                "0", "4", "5", "8", "4", "2", "3", "1", "2", "2", "4", "0", "4",
                "5", "6", "9">>

EsrBody(n) ==
    [i \in 1..n |-> EsrPattern[((i - 1) % Len(EsrPattern)) + 1]]

EsrChars == {"0", "1", "7", "A", " ", "e_acute"}

EsrPrefixes == {<<>>, <<"0", "0">>, <<" ", "0">>}

EsrInputs ==
    {p \o EsrBody(n) \o s :
        p \in EsrPrefixes, n \in 0..MaxEsrBody, s \in StringsUpTo(EsrChars, MaxEsrSuffix)}

TryWithChecksum ==
    /\ esr_op = "none"
    /\ esr_op' = "try_with_checksum"
    /\ esr_result' = try_with_checksum(esr_input)
    /\ UNCHANGED <<esr_input, esr_shown, iso_vars, sw_vars>>

TryWithoutChecksum ==
    /\ esr_op = "none"
    /\ esr_op' = "try_without_checksum"
    /\ esr_result' = try_without_checksum(esr_input)
    /\ UNCHANGED <<esr_input, esr_shown, iso_vars, sw_vars>>

\* checksum() applied to the input as it is (the function is private: this is
\* the call the unit test checksum_correct makes).
Checksum ==
    /\ esr_op = "none"
    /\ esr_op' = "checksum"
    /\ esr_result' = checksum(esr_input)
    /\ UNCHANGED <<esr_input, esr_shown, iso_vars, sw_vars>>

\* Esr::try_new (deprecated)
TryNew ==
    /\ esr_op = "none"
    /\ esr_op' = "try_new"
    /\ esr_result' = try_new(esr_input)
    /\ UNCHANGED <<esr_input, esr_shown, iso_vars, sw_vars>>

\* format!("{}", esr) on the Esr that a constructor returned
Display ==
    /\ esr_op \in {"try_with_checksum", "try_without_checksum", "try_new"}
    /\ esr_result.kind = "Ok"
    /\ esr_shown = None
    /\ esr_shown' = Some(fmt(esr_result.val))
    /\ UNCHANGED <<esr_input, esr_op, esr_result, iso_vars, sw_vars>>

InitEsr ==
    /\ esr_input \in EsrInputs
    /\ esr_op = "none"
    /\ esr_result = NoResult
    /\ esr_shown = None
    /\ IsoIdle
    /\ SwicoIdle

NextEsr == TryWithChecksum \/ TryWithoutChecksum \/ TryNew \/ Checksum \/ Display

SpecEsr == InitEsr /\ [][NextEsr]_vars

----------------------------------------------------------------------------
(* iso11649.rs *)

\* deunicode::deunicode: ASCII is kept, U+00E9 becomes "e" and U+00DF "ss".
deunicode(s) ==
    Flatten([i \in DOMAIN s |->
        IF s[i] = "e_acute" THEN <<"e">>
        ELSE IF s[i] = "sharp_s" THEN <<"s", "s">>
        ELSE <<s[i]>>])

\* str::to_ascii_uppercase
to_ascii_uppercase(s) ==
    [i \in DOMAIN s |->
        IF s[i] \in Range(LOWER) THEN UPPER[IndexOf(s[i], LOWER)] ELSE s[i]]

\* The conversion without the transliteration: characters outside ASCII are
\* dropped by the filter.
DigitsBase36_from_unfolded(source) ==
    SelectSeq(to_ascii_uppercase(source), IsDigit36)

\* impl From<&str> for DigitsBase36
DigitsBase36_from(source) ==
    SelectSeq(to_ascii_uppercase(deunicode(source)), IsDigit36)

\* Iso11649::new
Iso11649_new(any_utf8_text) == DigitsBase36_from(any_utf8_text)

\* The conversion reading every character in base 10: letters are dropped.
DigitsBase10_from_decimal_only(digits) ==
    Flatten([i \in DOMAIN digits |->
        IF IsDigit10(digits[i]) THEN <<digits[i]>> ELSE <<>>])

\* impl From<&DigitsBase36> for DigitsBase10
DigitsBase10_from(digits) ==
    Flatten([i \in DOMAIN digits |-> to_string(ToDigit36(digits[i]))])

\* The step of rem() in u8 arithmetic, where res * 10 + digit wraps.
RemStep_u8(res, digit, rhs) == ((res * 10 + digit) % 256) % rhs

\* One step of the loop of rem(): u32 arithmetic, res below rhs <= 255.
RemStep(res, digit, rhs) == (res * 10 + digit) % rhs

\* impl Rem<u8> for DigitsBase10; -1 when an unwrap() aborts (a character
\* that is no decimal digit, or a result that does not fit u8).
\* The digits are taken in order: those of the first half, then those of the
\* second half from the result of the first.
RECURSIVE RemLoop(_, _, _)
RemLoop(digits, res, rhs) ==
    IF res = -1 \/ digits = <<>> THEN res
    ELSE IF Len(digits) = 1
         THEN (IF ~IsDigit10(digits[1]) THEN -1
               ELSE RemStep(res, ToDigit10(digits[1]), rhs))
    ELSE RemLoop(SubSeq(digits, (Len(digits) \div 2) + 1, Len(digits)),
                 RemLoop(SubSeq(digits, 1, Len(digits) \div 2), res, rhs), rhs)

rem(digits, rhs) ==
    LET res == RemLoop(digits, 0, rhs)
    IN  IF res > 255 THEN -1 ELSE res

\* Iso11649::without_checksum
without_checksum(original) ==
    RemoveSpaces(to_ascii_uppercase(deunicode(original)))

ISO_BODY_LENGTH == 21

\* format!("{n}"): no padding.
Pad2_unpadded(n) == to_string(n)

\* format!("{n:02}")
Pad2(n) == IF n < 10 THEN <<"0">> \o to_string(n) ELSE to_string(n)

\* Iso11649::with_checksum; 98 - r is u8 arithmetic.
with_checksum(original) ==
    LET text_in_base_36 == without_checksum(original)
        base_36_at_most_21_digits ==
            SubSeq(text_in_base_36, 1,
                   IF Len(text_in_base_36) < ISO_BODY_LENGTH
                   THEN Len(text_in_base_36) ELSE ISO_BODY_LENGTH)
        text_with_rf00 == base_36_at_most_21_digits \o <<"R", "F", "0", "0">>
        digits_decimal == DigitsBase10_from(text_with_rf00)
        r == rem(digits_decimal, 97)
    IN  IF r = -1 \/ 98 - r < 0 THEN Panic
        ELSE Ok(<<"R", "F">> \o Pad2(98 - r) \o base_36_at_most_21_digits)

\* The validating constructor Iso11649::try_new (strict mode): the input
\* without its punctuation, then the checks of the length, of the RF prefix, of
\* the characters and of the MOD 97-10 value, in this order.
ISO_MIN_LENGTH == 5
ISO_MAX_LENGTH == 25

IsoPunctuation == {" ", "-", ".", ",", "/", ":"}

IsoStrip(raw) == SelectSeq(raw, LAMBDA ch : ch \notin IsoPunctuation)

\* body[4..] + body[..4] as decimal digits, modulo 97
IsoMod97(number) ==
    rem(DigitsBase10_from(SubSeq(number, 5, Len(number)) \o SubSeq(number, 1, 4)), 97)

Iso11649_try_new(raw) ==
    LET number == IsoStrip(raw)
    IN  IF Len(number) < ISO_MIN_LENGTH \/ Len(number) > ISO_MAX_LENGTH
        THEN Err("InvalidLength")
        ELSE IF SubSeq(number, 1, 2) # <<"R", "F">> THEN Err("InvalidFormat")
        ELSE IF \E i \in DOMAIN number : ~IsDigit36(number[i]) THEN Err("InvalidCharacters")
        ELSE IF IsoMod97(number) # 1 THEN Err("InvalidChecksum")
        ELSE Ok(number)

----------------------------------------------------------------------------
(* Inputs of Iso11649::new *)

MaxIsoBody == 22
MaxIsoSuffix == 2

\* The body of the references of the test test_parse_overflow.
IsoPattern == <<"A", "B", "C", "D", "E", "F", "G", "H", "I", "J">>

IsoBody(n) == [i \in 1..n |-> IsoPattern[((i - 1) % Len(IsoPattern)) + 1]]

IsoChars == {"a", "z", "9", " ", "-", "e_acute", "sharp_s"}

\* References given to the validating constructor: RF, two check digits and a
\* body, with and without punctuation, and strings that fail one check.
IsoReferences ==
    {<<"R", "F">> \o cc \o body :
        cc \in {s \in StringsUpTo({"1", "2", "5", "8"}, 2) : Len(s) = 2},
        body \in {<<"A">>, <<"a">>, <<>>,
                  <<"5", "3", "9", "0", "0", "7", "5", "4", "7", "0", "3", "4">>,
                  <<" ", "5", "3", "9", "0", " ", "0", "7", "5", "4", " ", "7", "0", "3", "4">>,
                  <<"-", "5", "3", "9", "0", ".", "0", "7", "5", "4", ",", "7", "0", "3", "4",
                    "/", ":">>,
                  <<"5", "3", "9", "0", "0", "7", "5", "4", "7", "0", "3", "e_acute">>,
                  <<"5", "3", "9", "0", "0", "7", "5", "4", "7", "0", "3", "$">>,
                  IsoBody(21), IsoBody(22)}}
    \cup {<<"r", "f", "1", "8", "5", "3", "9", "0", "0", "7", "5", "4", "7", "0", "3", "4">>,
          <<"X", "X", "1", "8", "5", "3", "9", "0", "0", "7", "5", "4", "7", "0", "3", "4">>,
          <<"R", " ", "F", "2", "5", "A">>}

IsoInputs ==
    {IsoBody(n) \o s : n \in 0..MaxIsoBody, s \in StringsUpTo(IsoChars, MaxIsoSuffix)}
    \cup IsoReferences

\* Iso11649::new(iso_input).with_checksum()
WithChecksum ==
    /\ iso_op = "none"
    /\ iso_op' = "with_checksum"
    /\ iso_result' = with_checksum(Iso11649_new(iso_input))
    /\ UNCHANGED <<iso_input, esr_vars, sw_vars>>

\* Iso11649::new(iso_input).without_checksum()
WithoutChecksum ==
    /\ iso_op = "none"
    /\ iso_op' = "without_checksum"
    /\ iso_result' = Ok(without_checksum(Iso11649_new(iso_input)))
    /\ UNCHANGED <<iso_input, esr_vars, sw_vars>>

\* Iso11649::try_new(iso_input)
IsoTryNew ==
    /\ iso_op = "none"
    /\ iso_op' = "try_new"
    /\ iso_result' = Iso11649_try_new(iso_input)
    /\ UNCHANGED <<iso_input, esr_vars, sw_vars>>

InitIso ==
    /\ iso_input \in IsoInputs
    /\ iso_op = "none"
    /\ iso_result = NoResult
    /\ EsrIdle
    /\ SwicoIdle

NextIso == WithChecksum \/ WithoutChecksum \/ IsoTryNew

SpecIso == InitIso /\ [][NextIso]_vars

----------------------------------------------------------------------------
(* String operations of the Swico code *)

\* Whether pat occurs in s at character index i.
MatchAt(s, pat, i) ==
    /\ i >= 1
    /\ i + Len(pat) - 1 <= Len(s)
    /\ \A j \in 1..Len(pat) : s[i + j - 1] = pat[j]

Matches(s, pat) == {i \in 1..Len(s) : MatchAt(s, pat, i)}

\* str::contains
Contains(s, pat) == Matches(s, pat) # {}

\* str::find as a character index: 0 when pat does not occur.
FindIndex(s, pat) ==
    LET m == Matches(s, pat) IN IF m = {} THEN 0 ELSE Min(m)

\* The byte offset of the character at index i (patterns are ASCII, so a
\* match starts on a character boundary).
ByteOffset(s, i) == ByteLength(SubSeq(s, 1, i - 1))

\* The character index at byte offset b, 0 when b falls inside a character
\* or beyond the end (where slicing aborts).
CharIndexAt(s, b) ==
    IF Range(s) \cap MultiByte = {}
    THEN (IF b <= Len(s) THEN b + 1 ELSE 0)
    ELSE LET at == {i \in 1..(Len(s) + 1) : ByteOffset(s, i) = b}
         IN  IF at = {} THEN 0 ELSE Min(at)

\* str::trim, for the whitespace the inputs use
IsWhitespace(ch) == ch = " "
Trim(s) ==
    LET kept == {i \in DOMAIN s : ~IsWhitespace(s[i])}
    IN  IF kept = {} THEN <<>> ELSE SubSeq(s, Min(kept), Max(kept))

\* The matches str::replace takes: left to right, never overlapping. A match
\* is taken when the chain of overlapping matches that ends at it is odd.
TakenMatches(s, pat) ==
    LET m == Matches(s, pat)
        overlapped(i) == \E j \in m : j < i /\ j + Len(pat) > i
        prev(i) == Max({j \in m : j < i /\ j + Len(pat) > i})
        chain[i \in m] == IF overlapped(i) THEN 1 + chain[prev(i)] ELSE 1
    IN  {i \in m : chain[i] % 2 = 1}

\* str::replace(pat, "")
RECURSIVE RemoveAt(_, _, _)
RemoveAt(s, at, n) ==
    IF at = {} THEN s
    ELSE LET i == Max(at)
         IN  RemoveAt(SubSeq(s, 1, i - 1) \o SubSeq(s, i + n, Len(s)), at \ {i}, n)

ReplaceWithEmpty(s, pat) ==
    IF pat = <<>> THEN s ELSE RemoveAt(s, TakenMatches(s, pat), Len(pat))

\* str::split(sep) for a one-character separator
Split(s, sep) ==
    LET at == {i \in DOMAIN s : s[i] = sep}
        cut(k) == IF k = 0 THEN 0
                  ELSE IF k = Cardinality(at) + 1 THEN Len(s) + 1
                  ELSE CHOOSE i \in at : Cardinality({j \in at : j < i}) = k - 1
    IN  [k \in 1..(Cardinality(at) + 1) |-> SubSeq(s, cut(k - 1) + 1, cut(k) - 1)]

----------------------------------------------------------------------------
(* billing_infos/swico/mod.rs: SwicoComponent *)

\* The variants in declaration order, which is the order derive(Ord) gives.
SwicoComponent ==
    <<"Unstructured", "Prefix", "InvoiceRef", "DocDate", "ClientRef", "VatNum",
      "VatDate", "VatDetails", "VatImport", "Conditions">>

get_id(c) ==
    CASE c = "Unstructured" -> 0
      [] c = "Prefix" -> 1
      [] c = "InvoiceRef" -> 10
      [] c = "DocDate" -> 11
      [] c = "ClientRef" -> 20
      [] c = "VatNum" -> 30
      [] c = "VatDate" -> 31
      [] c = "VatDetails" -> 32
      [] c = "VatImport" -> 33
      [] c = "Conditions" -> 40

for_parsing ==
    <<"InvoiceRef", "DocDate", "ClientRef", "VatNum", "VatDate", "VatDetails",
      "VatImport", "Conditions">>

\* format!("/{:02}/", id)
Beacon(id) == <<"/">> \o Pad2(id) \o <<"/">>

\* The ids below 100 that no component at all has.
invalids_of_all_components ==
    {i \in 0..99 : ~\E k \in DOMAIN SwicoComponent : get_id(SwicoComponent[k]) = i}

\* SwicoComponent::invalids(): the ids below 100 that no parsed component has.
invalids ==
    {i \in 0..99 : ~\E k \in DOMAIN for_parsing : get_id(for_parsing[k]) = i}

\* impl Display for SwicoComponent
Delimiter(c) ==
    IF c = "Unstructured" THEN <<>>
    ELSE IF c = "Prefix" THEN <<"/", "/">>
    ELSE Beacon(get_id(c))

\* Ord for SwicoComponent, derived: the order of declaration.
ComponentRank(c) == IndexOf(c, SwicoComponent)

----------------------------------------------------------------------------
(* StructuredSet = BTreeMap<SwicoComponent, Arc<str>>: a function from the   *)
(* components present to their values.                                     *)

EmptySet == [c \in {} |-> <<>>]

\* An insertion that keeps the value of a key already present.
Insert_keep_first(set, c, v) ==
    [k \in DOMAIN set \cup {c} |-> IF k \in DOMAIN set THEN set[k] ELSE v]

\* BTreeMap::insert
Insert(set, c, v) ==
    [k \in DOMAIN set \cup {c} |-> IF k = c THEN v ELSE set[k]]

\* The keys in descending order.
Keys_descending(set) ==
    LET present == {ComponentRank(c) : c \in DOMAIN set}
        nth(k) == CHOOSE r \in present : Cardinality({q \in present : q > r}) = k - 1
    IN  [k \in 1..Cardinality(present) |-> SwicoComponent[nth(k)]]

\* BTreeMap::iter: the keys in ascending order.
Keys(set) ==
    LET present == {ComponentRank(c) : c \in DOMAIN set}
        nth(k) == CHOOSE r \in present : Cardinality({q \in present : q < r}) = k - 1
    IN  [k \in 1..Cardinality(present) |-> SwicoComponent[nth(k)]]

RECURSIVE SumSeq(_)
SumSeq(ns) == IF ns = <<>> THEN 0 ELSE Head(ns) + SumSeq(Tail(ns))

\* tot_len without the Unstructured value.
tot_len_structured(set) ==
    LET keys == SelectSeq(Keys(set), LAMBDA c : c # "Unstructured")
    IN  SumSeq([k \in DOMAIN keys |-> Len(set[keys[k]])])

\* impl TotalLenght for StructuredSet
tot_len(set) ==
    LET keys == Keys(set) IN SumSeq([k \in DOMAIN keys |-> Len(set[keys[k]])])

\* impl RawDataKind for Version: the structured items, each the delimiter of
\* a component followed by its value, in key order.
StructuredItems(set, keys) ==
    [k \in DOMAIN keys |-> Delimiter(keys[k]) \o set[keys[k]]]

\* The RawData map as a record of its two optional entries; None when empty.
RawDataOf(uns, v) ==
    IF uns # None \/ v # <<>>
    THEN Some([Unstructured |-> uns, Structured |-> IF v # <<>> THEN Some(v) ELSE None])
    ELSE None

raw_data(set) ==
    RawDataOf(IF "Unstructured" \in DOMAIN set THEN Some(<<set["Unstructured"]>>) ELSE None,
              StructuredItems(set, SelectSeq(Keys(set), LAMBDA c : c # "Unstructured")))

\* impl Fold for RawData (utils.rs)
fold_from(rd, d) == IF rd[d] = None THEN None ELSE Some(Flatten(rd[d][1]))

----------------------------------------------------------------------------
(* billing_infos/mod.rs: BillingInfos *)

MAX_CHARS == 140

\* BillingInfos::new()
BillingInfos_new == [emitter |-> None, unstructured_field |-> None]

FoldOpt(rd, d) == IF rd = None THEN None ELSE fold_from(rd[1], d)

\* x.raw_data().and_then(|x| x.fold_from(d)) on the emitter, if any
EmitterData(self, d) ==
    IF self.emitter = None THEN None ELSE FoldOpt(raw_data(self.emitter[1]), d)

structured(self) == EmitterData(self, "Structured")

\* unstructured() reading the emitter before the override.
unstructured_emitter_first(self) ==
    IF EmitterData(self, "Unstructured") # None THEN EmitterData(self, "Unstructured")
    ELSE self.unstructured_field

unstructured(self) ==
    IF self.unstructured_field # None THEN self.unstructured_field
    ELSE EmitterData(self, "Unstructured")

OptLen(o) == IF o = None THEN 0 ELSE Len(o[1])

\* BillingInfos::len
BillingInfos_len(self) == OptLen(unstructured(self)) + OptLen(structured(self))

\* add_unstructured counting bytes (str::len) instead of characters.
add_unstructured_bytes(self, text) ==
    IF ByteLength(text) > MAX_CHARS
        \/ ByteLength(Flatten(structured(self))) + ByteLength(text) > MAX_CHARS
    THEN Err("TooLong")
    ELSE Ok([emitter |-> self.emitter, unstructured_field |-> Some(text)])

add_unstructured(self, text) ==
    IF Len(text) > MAX_CHARS \/ OptLen(structured(self)) + Len(text) > MAX_CHARS
    THEN Err("TooLong")
    ELSE Ok([emitter |-> self.emitter, unstructured_field |-> Some(text)])

----------------------------------------------------------------------------
(* billing_infos/utils.rs: paragraphs *)

FOLD_MIN == 70
TWO_LINES_MIN == 70
THREE_LINES_MIN == 125
THREE_LINES_MAX == 140

split_chars == <<";", "/", "\\", ",", ".", " ">>

\* The character indexes s.find(c) returns over the split characters: the
\* first occurrence of each one that occurs.
FirstOccurrences(s) ==
    {FindIndex(s, <<split_chars[k]>>) :
        k \in {q \in DOMAIN split_chars : Contains(s, <<split_chars[q]>>)}}

\* The halves s.split_at() returns after the character at index at, trimmed.
SplitAfter(s, at) == <<Trim(SubSeq(s, 1, at)), Trim(SubSeq(s, at + 1, Len(s)))>>

\* The first occurrences whose byte offset lies in the window of a text of i
\* bytes, m being i / 2 and c being (i - m) / 2.
InWindow(s, i, m, c) ==
    {at \in FirstOccurrences(s) :
        ByteOffset(s, at) > m - c /\ ByteOffset(s, at) < m + c}

\* split_unstructured keeping a text that has no split point.
split_unstructured_keep(s) ==
    IF ByteLength(s) < FOLD_MIN THEN <<s>>
    ELSE IF InWindow(s, ByteLength(s), ByteLength(s) \div 2,
                     (ByteLength(s) - ByteLength(s) \div 2) \div 2) # {}
         THEN SplitAfter(s, Min(InWindow(s, ByteLength(s), ByteLength(s) \div 2,
                     (ByteLength(s) - ByteLength(s) \div 2) \div 2)))
    ELSE <<s>>

split_unstructured(s) ==
    IF ByteLength(s) < FOLD_MIN THEN <<s>>
    ELSE IF InWindow(s, ByteLength(s), ByteLength(s) \div 2,
                     (ByteLength(s) - ByteLength(s) \div 2) \div 2) # {}
         THEN SplitAfter(s, Min(InWindow(s, ByteLength(s), ByteLength(s) \div 2,
                     (ByteLength(s) - ByteLength(s) \div 2) \div 2)))
    ELSE << <<>> >>

\* impl TotalLenght for RawData: the characters of the entries other than
\* Unstructured.
RawData_tot_len(r) ==
    IF r.Structured = None THEN 0
    ELSE SumSeq([k \in DOMAIN r.Structured[1] |-> Len(r.Structured[1][k])])

\* The number of lines the structured data is meant for.
LinesFor(n) ==
    IF n >= THREE_LINES_MIN /\ n <= THREE_LINES_MAX THEN 3
    ELSE IF n >= TWO_LINES_MIN /\ n < THREE_LINES_MIN THEN 2
    ELSE 1

div_ceil(a, b) == (a + b - 1) \div b

\* slice::chunks(size) with each chunk folded into one String, the empty
\* ones left out.
ChunkLines(items, size) ==
    SelectSeq([k \in 1..div_ceil(Len(items), size) |->
                  Flatten(SubSeq(items, (k - 1) * size + 1, Min({k * size, Len(items)})))],
              LAMBDA line : line # <<>>)

UnstructuredLines(r) ==
    IF r.Unstructured = None THEN <<>> ELSE split_unstructured(r.Unstructured[1][1])

StructuredLines(r) ==
    IF r.Structured = None THEN <<>>
    ELSE ChunkLines(r.Structured[1],
                    div_ceil(Len(r.Structured[1]), LinesFor(RawData_tot_len(r))))

make_paragraph_from_raw(r) ==
    IF UnstructuredLines(r) \o StructuredLines(r) # <<>>
    THEN Some(UnstructuredLines(r) \o StructuredLines(r))
    ELSE None

\* The RawData as_paragraph() collects: the entries of the emitter, then the
\* override in the place of the Unstructured entry.
ParagraphData(self) ==
    LET rd == IF self.emitter = None THEN None ELSE raw_data(self.emitter[1])
    IN  [Unstructured |->
            IF self.unstructured_field # None THEN Some(<<self.unstructured_field[1]>>)
            ELSE IF rd = None THEN None ELSE rd[1].Unstructured,
         Structured |-> IF rd = None THEN None ELSE rd[1].Structured]

\* BillingInfos::as_paragraph
as_paragraph(self) == make_paragraph_from_raw(ParagraphData(self))

----------------------------------------------------------------------------
(* Parsers of the libraries the validator calls *)

\* The number of leading characters of s, at most max, that are ASCII digits.
LeadingDigits(s, max) ==
    LET n == IF Len(s) < max THEN Len(s) ELSE max
        stops == {i \in 1..n : ~IsDigit10(s[i])}
    IN  IF stops = {} THEN n ELSE Min(stops) - 1

TrimStart(s) ==
    LET kept == {i \in DOMAIN s : ~IsWhitespace(s[i])}
    IN  IF kept = {} THEN <<>> ELSE SubSeq(s, Min(kept), Len(s))

\* The value of a short string of decimal digits.
RECURSIVE DigitsValue(_)
DigitsValue(ds) ==
    IF ds = <<>> THEN 0
    ELSE 10 * DigitsValue(SubSeq(ds, 1, Len(ds) - 1)) + ToDigit10(ds[Len(ds)])

\* One numeric item of a chrono format string (%y, %m, %d): whitespace is
\* skipped, then one or two digits are read. ok is FALSE when no digit follows.
TakeDigits(rest, n) ==
    [ok |-> n >= 1,
     val |-> DigitsValue(SubSeq(rest, 1, n)),
     rest |-> SubSeq(rest, n + 1, Len(rest))]

ScanDigits(rest) == TakeDigits(rest, LeadingDigits(rest, 2))

ScanNumber2(s) == ScanDigits(TrimStart(s))

IsLeapYear(y) == (y % 4 = 0 /\ y % 100 # 0) \/ y % 400 = 0

DaysInMonth(y, m) ==
    IF m = 2 THEN (IF IsLeapYear(y) THEN 29 ELSE 28)
    ELSE IF m \in {4, 6, 9, 11} THEN 30 ELSE 31

\* NaiveDate::parse_from_str(s, DATE_FMT).is_ok(), DATE_FMT = "%y%m%d": three
\* numeric items, nothing left over, and a date of the calendar (a two-digit
\* year below 70 is in 20xx, the others in 19xx).
CalendarDate(y, m, d) ==
    /\ y.ok /\ m.ok /\ d.ok
    /\ d.rest = <<>>
    /\ m.val >= 1 /\ m.val <= 12
    /\ d.val >= 1
    /\ d.val <= DaysInMonth(IF y.val < 70 THEN 2000 + y.val ELSE 1900 + y.val, m.val)

ScanDay(y, m) == CalendarDate(y, m, ScanNumber2(m.rest))

ScanMonth(y) == ScanDay(y, ScanNumber2(y.rest))

DateParses(s) == ScanMonth(ScanNumber2(s))

\* str::parse::<f32>().is_ok(): an optional sign, then nan, inf or infinity in
\* any case, or digits with at most one point and at least one digit, and an
\* optional exponent of at least one digit.
IsDecimalMantissa(s) ==
    /\ \A i \in DOMAIN s : IsDigit10(s[i]) \/ s[i] = "."
    /\ Cardinality({i \in DOMAIN s : s[i] = "."}) <= 1
    /\ \E i \in DOMAIN s : IsDigit10(s[i])

IsExponent(s) ==
    LET ds == IF s # <<>> /\ s[1] \in {"+", "-"} THEN Tail(s) ELSE s
    IN  ds # <<>> /\ \A i \in DOMAIN ds : IsDigit10(ds[i])

ParsesF32(s) ==
    LET body == IF s # <<>> /\ s[1] \in {"+", "-"} THEN Tail(s) ELSE s
        upper == to_ascii_uppercase(body)
        marks == {i \in DOMAIN upper : upper[i] = "E"}
    IN  \/ upper \in {<<"N", "A", "N">>, <<"I", "N", "F">>,
                      <<"I", "N", "F", "I", "N", "I", "T", "Y">>}
        \/ /\ marks = {}
           /\ IsDecimalMantissa(body)
        \/ /\ marks # {}
           /\ IsDecimalMantissa(SubSeq(body, 1, Min(marks) - 1))
           /\ IsExponent(SubSeq(body, Min(marks) + 1, Len(body)))

U8_MAX == 255

\* str::parse::<u8>().is_ok(): an optional '+', then at least one digit, the
\* value at most 255.
ParsesU8(s) ==
    LET ds == IF s # <<>> /\ s[1] = "+" THEN Tail(s) ELSE s
        sig == TrimStartZeros(ds)
    IN  /\ ds # <<>>
        /\ \A i \in DOMAIN ds : IsDigit10(ds[i])
        /\ Len(sig) <= 3
        /\ DigitsValue(sig) <= U8_MAX

----------------------------------------------------------------------------
(* billing_infos/swico/syntax.rs *)

\* d[..6] and d[6..] are byte slices of a value of 12 characters.
DateParts(d, cut) == <<SubSeq(d, 1, cut - 1), SubSeq(d, cut, Len(d))>>

DatesCheck(parts) ==
    IF \E k \in DOMAIN parts : parts[k] = <<>> THEN Panic
    ELSE IF \A k \in DOMAIN parts : DateParses(parts[k]) THEN Ok(<<>>)
    ELSE Err("FromNaiveDateParse")

is_date_ok(d) ==
    IF Len(d) \notin {6, 12} THEN Err("InvalidDateFormat")
    ELSE DatesCheck(IF Len(d) = 6 THEN <<d>>
                    ELSE IF CharIndexAt(d, 6) = 0 THEN <<<<>>>>
                    ELSE DateParts(d, CharIndexAt(d, 6)))

\* The start of the run of backslashes that position i is in.
RunStart(s, i) ==
    Min({r \in 1..i : \A k \in r..i : s[k] = "\\"})

\* Every backslash taken as the start of an escape.
IsEscapeStart_every_backslash(s, i) == s[i] = "\\"

\* A backslash the scan of invalid_chars meets (the ones it consumes as the
\* second character of a pair are skipped).
IsEscapeStart(s, i) == s[i] = "\\" /\ (i - RunStart(s, i)) % 2 = 0

invalid_chars(s) ==
    IF /\ \A i \in DOMAIN s : IsEscapeStart(s, i)
            => (i < Len(s) /\ s[i + 1] \in {"\\", "/"})
       /\ \A i \in DOMAIN s : s[i] = "/"
            => (i > 1 /\ IsEscapeStart(s, i - 1))
    THEN Ok(<<>>)
    ELSE Err("InvalidEscapeChar")

SubGroupsCheck(sub_groups, is_condition) ==
    IF \E k \in DOMAIN sub_groups : ~ParsesF32(sub_groups[k]) THEN Err("FromParseFloat")
    ELSE IF is_condition /\ Len(sub_groups) # 2 THEN Err("InvalidConditions")
    ELSE IF is_condition /\ ~ParsesU8(sub_groups[2]) THEN Err("FromParseInt")
    ELSE Ok(<<>>)

GroupsCheck(group, is_condition) ==
    FirstFailure([g \in DOMAIN group |->
                    SubGroupsCheck(Split(group[g], ":"), is_condition)], Ok(<<>>))

group_control(s, is_condition) == GroupsCheck(Split(s, ";"), is_condition)

VAT_NUM_LENGTH == 9

vat_num_check(vatnum) ==
    IF Len(vatnum) # VAT_NUM_LENGTH \/ \E i \in DOMAIN vatnum : ~IsDigit10(vatnum[i])
    THEN Err("InvalidVatNum") ELSE Ok(<<>>)

amounts_check(s, key) ==
    IF \E i \in DOMAIN s : s[i] = "," THEN Err("InvalidDecimalPoint")
    ELSE group_control(s, key = "Conditions")

\* The checks of validate_syntax in the order the code makes them.
FieldCheck(set, c) ==
    IF c \notin DOMAIN set THEN Ok(<<>>)
    ELSE IF c \in {"DocDate", "VatDate"} THEN is_date_ok(set[c])
    ELSE IF c = "VatNum" THEN vat_num_check(set[c])
    ELSE IF c \in {"InvoiceRef", "ClientRef"} THEN invalid_chars(set[c])
    ELSE amounts_check(set[c], c)

ValidationOrder ==
    <<"DocDate", "VatDate", "VatNum", "InvoiceRef", "ClientRef", "VatDetails",
      "VatImport", "Conditions">>

\* Version::validate_syntax: the set itself, or the first failure.
validate_syntax(set) ==
    FirstFailure([k \in DOMAIN ValidationOrder |-> FieldCheck(set, ValidationOrder[k])],
                 Ok(set))

----------------------------------------------------------------------------
(* billing_infos/swico/builder.rs *)

S1 == <<"S", "1">>

\* Ok(BillingInfos { emitter: Some(Emitter::Swico(..)), unstructured_field:
\* None }) around a validated version, or its error.
WithEmitter(vers) ==
    IF vers.kind # "Ok" THEN vers
    ELSE Ok([emitter |-> Some(vers.val), unstructured_field |-> None])

\* The set after the first statement of build().
WithPrefix(set) ==
    IF Cardinality(DOMAIN set) > 1 THEN Insert(set, "Prefix", S1) ELSE set

\* S1Builder::build, on the set WithPrefix left.
build(set) ==
    IF tot_len(set) > MAX_CHARS THEN Err("TooLong")
    ELSE WithEmitter(validate_syntax(set))

----------------------------------------------------------------------------
(* billing_infos/swico/parser.rs *)

\* invalid_beacons: some /NN/ of an id that is not parsed occurs in s.
invalid_beacons(s) ==
    IF \E id \in invalids : Contains(s, Beacon(id))
    THEN Err("InvalidBeacons") ELSE Ok(<<>>)

MARKER == <<"/", "/", "S", "1">>

U8_RANGE == 256

\* `x as u8`
as_u8(x) == x % U8_RANGE

\* s[from..to] by byte offsets, in a one-element sequence; <<>> when an offset
\* is not a character boundary (the slice aborts).
ByteSlice(s, from, to) ==
    IF CharIndexAt(s, from) = 0 \/ CharIndexAt(s, to) = 0 \/ from > to THEN <<>>
    ELSE <<SubSeq(s, CharIndexAt(s, from), CharIndexAt(s, to) - 1)>>

\* The BTreeMap<u8, &SwicoComponent> of s1_parser: per key the component
\* inserted last, the components being looked up in for_parsing order.
ParserIndexes(s) ==
    LET found == {k \in DOMAIN for_parsing : Contains(s, Delimiter(for_parsing[k]))}
        key(k) == as_u8(ByteOffset(s, FindIndex(s, Delimiter(for_parsing[k]))))
        keys == {key(k) : k \in found}
    IN  [x \in keys |-> for_parsing[Max({k \in found : key(k) = x})]]

\* The entries of a map in ascending key order.
SortedKeys(keys) ==
    [n \in 1..Cardinality(keys) |->
        CHOOSE x \in keys : Cardinality({y \in keys : y < x}) = n - 1]

RECURSIVE InsertAll(_, _)
InsertAll(set, entries) ==
    IF entries = <<>> THEN set
    ELSE InsertAll(Insert(set, Head(entries)[1], Head(entries)[2]), Tail(entries))

\* The slice of window k, and of the last entry for k = Len(order).
ParserSlice(s, order, k) ==
    IF k < Len(order) THEN ByteSlice(s, order[k], order[k + 1])
    ELSE ByteSlice(s, order[k], ByteLength(s))

ParserValue(s, indexes, order, k) ==
    ReplaceWithEmpty(ParserSlice(s, order, k)[1], Delimiter(indexes[order[k]]))

\* The entries inserted: an empty value is kept for the last entry only.
ParserEntries(s, indexes, order) ==
    LET kept == SelectSeq([k \in 1..Len(order) |-> k],
                          LAMBDA k : k = Len(order) \/ ParserValue(s, indexes, order, k) # <<>>)
    IN  [j \in DOMAIN kept |->
            <<indexes[order[kept[j]]], ParserValue(s, indexes, order, kept[j])>>]

ParseOrdered(uns, s, indexes, order) ==
    IF \E k \in DOMAIN order : ParserSlice(s, order, k) = <<>> THEN Panic
    ELSE IF order = <<>> THEN Err("IndexError")
    ELSE Ok(Insert(InsertAll(Insert(EmptySet, "Unstructured", uns),
                             ParserEntries(s, indexes, order)),
                   "Prefix", S1))

ParseIndexed(uns, s, indexes) ==
    ParseOrdered(uns, s, indexes, SortedKeys(DOMAIN indexes))

ParseParts(uns, s) == ParseIndexed(uns, s, ParserIndexes(s))

\* split_once("//S1") at character index `at`, the first part trimmed
ParseSplit(raw, at) ==
    ParseParts(Trim(SubSeq(raw, 1, at - 1)), SubSeq(raw, at + Len(MARKER), Len(raw)))

s1_parser(raw) ==
    IF invalid_beacons(raw).kind # "Ok" THEN invalid_beacons(raw)
    ELSE IF ~Contains(raw, MARKER) THEN Err("IndexError")
    ELSE ParseSplit(raw, FindIndex(raw, MARKER))

\* impl TryFrom<&str> for Swico
ValidateParsed(parsed) ==
    IF parsed.kind # "Ok" THEN parsed ELSE validate_syntax(parsed.val)

Swico_try_from(value) == ValidateParsed(s1_parser(value))

\* impl FromStr for BillingInfos
from_str(s) ==
    IF Contains(s, MARKER) THEN WithEmitter(Swico_try_from(s)) ELSE Err("FromParser")

----------------------------------------------------------------------------
(* The values the operations of billing_infos are called with *)

MaxFields == 3
MaxAdds == 2
MaxGroups == 2

Msg == <<"M", "s", "g">>
InvoiceNo == <<"1">>
Date == <<"2", "4", "0", "6", "3", "0">>
DateRange == <<"2", "4", "0", "5", "0", "1", "2", "4", "0", "6", "3", "0">>
ClientNo == <<"5", "\\", "/", "e_acute">>
VatNo == <<"1", "1", "2", "8", "0", "6", "0", "9", "7">>
Rate == <<"7", ".", "7">>
Import == <<"2", ".", "5", ":", "1", "4", ".", "8", "5">>
Terms == <<"3", ":", "1", "0", ";", "0", ":", "3", "0">>

\* A text of n characters, the first one outside ASCII.
Text(n) == <<"e_acute">> \o Rep("x", n - 1)

\* The values a setter of S1Builder is called with, by component.
FieldValues(c) ==
    CASE c = "Unstructured" ->
            {Msg, Text(MAX_CHARS - 3), Text(MAX_CHARS - 2), Text(MAX_CHARS + 1)}
      [] c = "InvoiceRef" -> {InvoiceNo, <<>>}
      [] c = "DocDate" -> {Date, <<"2", "4", "0", "6">>}
      [] c = "ClientRef" -> {ClientNo}
      [] c = "VatNum" -> {VatNo}
      [] c = "VatDate" -> {DateRange}
      [] c = "VatDetails" -> {Rate}
      [] c = "VatImport" -> {Import}
      [] c = "Conditions" -> {Terms}

Settable == Range(SwicoComponent) \ {"Prefix"}

\* The texts BillingInfos::add_unstructured is called with.
AddedTexts ==
    {Msg, Text(MAX_CHARS - 9), Text(MAX_CHARS - 8), Text(MAX_CHARS), Text(MAX_CHARS + 1)}

\* The free texts put before a structured string.
FreeTexts == {<<>>, Msg, <<" ">> \o Msg \o <<" ">>, <<"/", "1", "2", "/">>}

\* The groups of the raw strings that are parsed.
Group(c, v) == Delimiter(c) \o v

RawGroups ==
    {Group("InvoiceRef", InvoiceNo), Group("DocDate", Date),
     Group("ClientRef", ClientNo), Group("VatNum", VatNo),
     Group("Conditions", Terms), Group("VatDetails", <<>>),
     Beacon(12) \o <<"x">>}

\* Sequences of at most n groups, no group twice.
RECURSIVE GroupSeqs(_)
GroupSeqs(n) ==
    IF n = 0 THEN {<<>>}
    ELSE LET shorter == GroupSeqs(n - 1)
         IN  shorter \cup {Append(gs, g) : gs \in {x \in shorter : Len(x) = n - 1},
                                            g \in RawGroups}

\* Raw strings with a /NN/ tag that no parsed component has, before the
\* marker or after a group.
BeaconInputs ==
    {Beacon(id) \o MARKER \o Group("InvoiceRef", InvoiceNo) : id \in {0, 1, 99}}
    \cup {MARKER \o Group("InvoiceRef", InvoiceNo) \o Beacon(id) : id \in {0, 1, 21}}

\* Raw strings in which the tag /10/ occurs twice.
RepeatedTagInputs ==
    {MARKER \o Group("InvoiceRef", <<"1">>) \o Group("InvoiceRef", <<"2">>) \o gs :
        gs \in {<<>>, Group("DocDate", Date)}}

\* Raw strings whose second tag lies at offset 255, 256 and 257 of the text
\* after the marker.
LongRegionInputs ==
    {MARKER \o Group("InvoiceRef", Rep("x", n)) \o Group("DocDate", Date) :
        n \in {U8_RANGE - 5, U8_RANGE - 4, U8_RANGE - 3}}

RawInputs ==
    {m \o MARKER \o Flatten(gs) : m \in FreeTexts,
        gs \in {x \in GroupSeqs(MaxGroups) : \A i, j \in DOMAIN x : x[i] = x[j] => i = j}}
    \cup {Msg, Msg \o Group("InvoiceRef", InvoiceNo)}
    \cup BeaconInputs
    \cup RepeatedTagInputs
    \cup LongRegionInputs

----------------------------------------------------------------------------
(* The operations of billing_infos *)

Ended(r) == [kind |-> r.kind, val |-> <<>>, err |-> r.err]

\* An operation returned r: the result is recorded, and the value when there
\* is one.
Returns(r) ==
    /\ sw_result' = Ended(r)
    /\ bi' = IF r.kind = "Ok" THEN Some(r.val) ELSE bi

\* A setter of S1Builder (add_unstructured, invoice_ref, doc_date, ...)
SetField(c, v) ==
    /\ bi = None
    /\ sw_op \in {"none", "set", "build"}
    /\ c \in DOMAIN builder \/ Cardinality(DOMAIN builder \ {"Prefix"}) < MaxFields
    /\ builder' = Insert(builder, c, v)
    /\ last_call' = c
    /\ sw_op' = "set"
    /\ sw_arg' = <<>>
    /\ sw_result' = NoResult
    /\ UNCHANGED <<bi, bi_prev, calls, esr_vars, iso_vars>>

\* S1Builder::build
Build ==
    /\ bi = None
    /\ sw_op = "set"
    /\ builder' = WithPrefix(builder)
    /\ Returns(build(builder'))
    /\ sw_op' = "build"
    /\ sw_arg' = <<>>
    /\ UNCHANGED <<last_call, calls, bi_prev, esr_vars, iso_vars>>

\* BillingInfos::new
New ==
    /\ bi = None
    /\ sw_op = "none"
    /\ bi' = Some(BillingInfos_new)
    /\ sw_op' = "new"
    /\ sw_result' = Ended(Ok(<<>>))
    /\ UNCHANGED <<builder, last_call, calls, bi_prev, sw_arg, esr_vars, iso_vars>>

\* The add_unstructured calls made on the value so far.
Adds(p, op) ==
    IF op # "add_unstructured" THEN 0
    ELSE IF p # None /\ p[1].unstructured_field # None THEN 2 ELSE 1

\* BillingInfos::add_unstructured
AddUnstructured(text) ==
    /\ bi # None
    /\ sw_op \in {"new", "build", "from_str", "add_unstructured"}
    /\ Adds(bi_prev, sw_op) < MaxAdds
    /\ Returns(add_unstructured(bi[1], text))
    /\ bi_prev' = bi
    /\ sw_op' = "add_unstructured"
    /\ sw_arg' = text
    /\ UNCHANGED <<builder, last_call, calls, esr_vars, iso_vars>>

\* BillingInfos::from_str on a raw string
FromStr(raw) ==
    /\ bi = None
    /\ sw_op = "none"
    /\ Returns(from_str(raw))
    /\ sw_op' = "from_str"
    /\ sw_arg' = raw
    /\ UNCHANGED <<builder, last_call, calls, bi_prev, esr_vars, iso_vars>>

\* BillingInfos::from_str on a free text followed by the structured string of
\* the value that build() returned.
Reparse(msg) ==
    /\ bi # None
    /\ sw_op = "build"
    /\ structured(bi[1]) # None
    /\ Returns(from_str(msg \o structured(bi[1])[1]))
    /\ bi_prev' = bi
    /\ sw_op' = "reparse"
    /\ sw_arg' = msg
    /\ UNCHANGED <<builder, last_call, calls, esr_vars, iso_vars>>

Init ==
    /\ SwicoIdle
    /\ EsrIdle
    /\ IsoIdle

Next ==
    \/ \E c \in Settable : \E v \in FieldValues(c) : SetField(c, v)
    \/ Build
    \/ New
    \/ \E text \in AddedTexts : AddUnstructured(text)
    \/ \E raw \in RawInputs : FromStr(raw)
    \/ \E msg \in FreeTexts : Reparse(msg)

Spec == Init /\ [][Next]_vars

----------------------------------------------------------------------------
(* Paragraphs: as_paragraph() on a value that was parsed, or made by new(), *)
(* with or without an override text                                         *)

\* A text of n characters: k times U+00E9, then the letter a.
Letters(n, k) == Rep("e_acute", k) \o Rep("a", n - k)

\* The text s with the character ch[p] in the place of the character that
\* follows p others, for the p of ps.
Breaks(s, ps, ch) == [i \in DOMAIN s |-> IF (i - 1) \in ps THEN ch[i - 1] ELSE s[i]]

\* The offsets break characters are put at in a text of n characters: near
\* the start, at both edges of the middle window, in the middle, and around
\* a blank that follows the middle.
BreakOffsets(n) ==
    LET m == n \div 2
        c == (n - m) \div 2
    IN  {3, m - c, m - c + 1, m, m + 1, m + c - 1, m + c}

BreakChars == {";", " ", "."}

\* The maps from at most two of the offsets to a break character.
BreakMaps(n) ==
    UNION {[ps -> BreakChars] :
            ps \in {q \in SUBSET BreakOffsets(n) : Cardinality(q) \in {1, 2}}}

FoldedLengths == {FOLD_MIN, FOLD_MIN + 1, 100}

\* The texts add_unstructured is called with on a new value.
ParagraphTexts ==
    {Letters(n, 0) : n \in {0, 1, FOLD_MIN - 1, FOLD_MIN, MAX_CHARS}}
    \cup {Letters(FOLD_MIN - 1, 1), Letters(FOLD_MIN - 2, 1), Letters(FOLD_MIN - 1, FOLD_MIN - 1)}
    \cup UNION {{Breaks(Letters(n, 0), DOMAIN f, f) : f \in BreakMaps(n)} : n \in FoldedLengths}
    \cup {Breaks(Letters(FOLD_MIN, 11), {p}, [q \in {p} |-> ch]) :
            p \in {11, 22, 30, 58, 60}, ch \in Range(split_chars)}
    \cup {Breaks(Letters(FOLD_MIN, 0), {p}, [q \in {p} |-> ch]) :
            p \in BreakOffsets(FOLD_MIN), ch \in Range(split_chars)}

\* The texts add_unstructured is called with on a parsed value.
OverrideTexts ==
    {Msg, Letters(FOLD_MIN, 0), Breaks(Letters(FOLD_MIN, 0), {35}, [q \in {35} |-> " "])}

\* The free texts before the marker of a parsed string.
ParagraphFreeTexts ==
    {<<>>, <<" ">>, <<" ", " ">>, Msg, Letters(200, 0), Letters(FOLD_MIN - 1, 1),
     Breaks(Letters(FOLD_MIN, 0), {3, 35}, [q \in {3, 35} |-> " "])}

\* The groups after a first group /10/ of a parsed string.
ParagraphGroups ==
    {<<>>,
     Group("DocDate", Date),
     Group("DocDate", Date) \o Group("VatNum", VatNo),
     Group("DocDate", Date) \o Group("VatNum", VatNo) \o Group("Conditions", Terms)}

\* The character totals of the structured data of the parsed strings.
ParagraphTotals ==
    {30, TWO_LINES_MIN - 1, TWO_LINES_MIN, THREE_LINES_MIN - 1, THREE_LINES_MIN,
     THREE_LINES_MAX, THREE_LINES_MAX + 1}

\* //S1/10/x..x followed by gs, of tot characters after the free text msg.
ParagraphRaw(msg, gs, tot) ==
    msg \o MARKER \o Group("InvoiceRef", Rep("x", tot - Len(MARKER) - 4 - Len(gs))) \o gs

ParagraphRaws ==
    {ParagraphRaw(msg, gs, tot) :
        msg \in ParagraphFreeTexts, gs \in ParagraphGroups, tot \in ParagraphTotals}

\* BillingInfos::add_unstructured, once, on the value new() or from_str made
ParaAdd(text) ==
    /\ bi # None
    /\ sw_op \in {"new", "from_str"}
    /\ Returns(add_unstructured(bi[1], text))
    /\ bi_prev' = bi
    /\ sw_op' = "add_unstructured"
    /\ sw_arg' = text
    /\ UNCHANGED <<builder, last_call, calls, esr_vars, iso_vars>>

\* BillingInfos::as_paragraph: the paragraph is kept as the value of the
\* result, and sw_arg stays the argument of the operation that made the value
AsParagraph ==
    /\ bi # None
    /\ sw_op \in {"new", "from_str", "add_unstructured"}
    /\ sw_result' = Ok(as_paragraph(bi[1]))
    /\ bi_prev' = bi
    /\ sw_op' = "as_paragraph"
    /\ UNCHANGED <<bi, sw_arg, builder, last_call, calls, esr_vars, iso_vars>>

NextParagraph ==
    \/ New
    \/ \E raw \in ParagraphRaws : FromStr(raw)
    \/ \E text \in (IF sw_op = "new" THEN ParagraphTexts ELSE OverrideTexts) : ParaAdd(text)
    \/ AsParagraph

SpecParagraph == Init /\ [][NextParagraph]_vars

----------------------------------------------------------------------------
(* The validator on one field: a builder that holds a single field, built *)

\* Bounds of the values given to the validator.
MaxAmountLen == 4
MaxDateTail == 4
MaxRefLen == 5

\* Conditions values: the strings over digits, separators, a comma and a
\* letter, and longer examples (days above the range of u8, fractions, signs,
\* three subgroups, a scientific notation).
ConditionsValues ==
    StringsUpTo({"0", "3", ":", ";", ",", "x"}, MaxAmountLen)
    \cup {Terms,
          <<"0", ":", "3", "0", "0">>, <<"0", ":", "2", "5", "5">>,
          <<"0", ":", "2", "5", "6">>, <<"2", ".", "5", ":", "1", "0">>,
          <<"0", ":", "1", ".", "5">>, <<"0", ":", "-", "1">>,
          <<"1", ":", "2", ":", "3">>, <<"0", ":", "1", "e", "1">>,
          <<"3", ":", "1", "0", ";", "0", ":", "3", "0", "0">>}

\* Date values: year 24 followed by every tail over a few digits and a space,
\* other lengths, leap days, ranges, and characters outside ASCII.
DateValues ==
    {<<"2", "4">> \o tail :
        tail \in {s \in StringsUpTo({"0", "1", "2", "3", "9", " "}, MaxDateTail) :
                    Len(s) = MaxDateTail}}
    \cup {<<>>, <<"2", "4", "0", "6">>, Date \o <<"0">>, DateRange, Date \o Date,
          <<"2", "3", "0", "2", "2", "9">>, <<"0", "0", "0", "2", "2", "9">>,
          <<"9", "9", "1", "2", "3", "1">>, <<"2", "4", "0", "6", "3", "x">>,
          Date \o <<"2", "4", "1", "3", "0", "1">>,
          <<"2", "4", "1", "3", "0", "1">> \o Date,
          Date \o Date \o <<"0">>,
          <<"2", "4", "0", "6", "3", "e_acute">>,
          <<"e_acute", "4", "0", "6", "3", "0">> \o Date,
          <<"2", "4", "0", "6", "3", "e_acute">> \o Date}

\* Reference values: every string over a backslash, a slash and a letter.
RefValues == StringsUpTo({"\\", "/", "a"}, MaxRefLen)

CheckedComponents == {"Conditions", "DocDate", "VatDate", "InvoiceRef", "ClientRef"}

CheckedValues(c) ==
    CASE c = "Conditions" -> ConditionsValues
      [] c \in {"DocDate", "VatDate"} -> DateValues
      [] c = "InvoiceRef" -> RefValues
      [] c = "ClientRef" -> {s \in RefValues : Len(s) < MaxRefLen}

\* The NaiveDate values given to doc_date_naive and vat_date_naive: dates of
\* the calendar, in and out of the century that a two-digit year is read in.
NaiveDates ==
    {date \in [year : {1900, 1999, 2000, 2024, 2100}, month : {1, 2, 12},
               day : {1, 28, 29, 31}] :
        date.day <= DaysInMonth(date.year, date.month)}

\* date.format(DATE_FMT), DATE_FMT = "%y%m%d"
NaiveDate_format(date) ==
    Pad2(date.year % 100) \o Pad2(date.month) \o Pad2(date.day)

\* A setter called on the builder that S1Builder::new() returned.
SetOnly(c, v) ==
    /\ builder = EmptySet
    /\ SetField(c, v)

\* S1Builder::doc_date_naive on the new builder
DocDateNaive(date) ==
    /\ builder = EmptySet
    /\ SetField("DocDate", NaiveDate_format(date))

\* S1Builder::vat_date_naive on the new builder; end is an Option.
VatDateNaive(start, end) ==
    /\ builder = EmptySet
    /\ SetField("VatDate",
                IF end = None THEN NaiveDate_format(start)
                ELSE NaiveDate_format(start) \o NaiveDate_format(end[1]))

NextValidate ==
    \/ \E c \in CheckedComponents : \E v \in CheckedValues(c) : SetOnly(c, v)
    \/ \E date \in NaiveDates : DocDateNaive(date)
    \/ \E start \in NaiveDates :
            \E end \in {None} \cup {Some(date) : date \in NaiveDates} :
                VatDateNaive(start, end)
    \/ Build

SpecValidate == Init /\ [][NextValidate]_vars

----------------------------------------------------------------------------
(* Sequences of setter calls on one builder, recorded, and build() *)

MaxCalls == 4

CallComponents == {"Unstructured", "InvoiceRef", "DocDate"}

\* The values of the recorded calls: for each tag one that build() accepts
\* and one that it refuses or that changes the structured string.
CallValues(c) ==
    IF c = "Unstructured" THEN {Msg, Text(MAX_CHARS + 1)} ELSE FieldValues(c)

\* A setter of S1Builder, the call being recorded; it returns the builder
\* itself and has no failure.
RecordedCall(c, v) ==
    /\ bi = None
    /\ sw_op \in {"none", "set", "build"}
    /\ Len(calls) < MaxCalls
    /\ builder' = Insert(builder, c, v)
    /\ calls' = Append(calls, <<c, v>>)
    /\ last_call' = c
    /\ sw_op' = "set"
    /\ sw_arg' = <<>>
    /\ sw_result' = NoResult
    /\ UNCHANGED <<bi, bi_prev, esr_vars, iso_vars>>

NextBuilder ==
    \/ \E c \in CallComponents : \E v \in CallValues(c) : RecordedCall(c, v)
    \/ Build

SpecBuilder == Init /\ [][NextBuilder]_vars

----------------------------------------------------------------------------
(* Properties of esr.rs *)

AllDigits(s) == \A i \in DOMAIN s : IsDigit10(s[i])

\* The table recurrence as a function of the number of digits read.
RefCarry(s) ==
    LET f[i \in 0..Len(s)] ==
            IF i = 0 THEN 0
            ELSE <<0, 9, 4, 6, 8, 2, 7, 1, 3, 5>>[((ToDigit10(s[i]) + f[i - 1]) % 10) + 1]
    IN  f[Len(s)]

RefCheckDigit(s) == <<DIGITS[((10 - RefCarry(s)) % 10) + 1]>>

\* C3 as stated: every digit string of 4 to 26 digits is accepted by
\* try_without_checksum, which appends k = checksum(d), and d followed by k
\* is accepted by try_with_checksum.
C3_Original ==
    (esr_op = "try_without_checksum" /\ AllDigits(esr_input)
        /\ Len(esr_input) >= 4 /\ Len(esr_input) <= 26)
    => /\ esr_result.kind = "Ok"
       /\ esr_result.val = EsrStrip(esr_input) \o checksum(esr_input).val
       /\ try_with_checksum(esr_input \o checksum(esr_input).val).kind = "Ok"

\* C3 amended: a digit string that has 5 to 25 digits once its leading zeros
\* are removed is accepted by try_without_checksum; the stored number is the
\* string without its leading zeros followed by the one digit k = checksum(d)
\* (the reference check digit), and d followed by k is accepted by
\* try_with_checksum.
C3_Amended ==
    (esr_op = "try_without_checksum" /\ AllDigits(esr_input)
        /\ Len(TrimStartZeros(esr_input)) >= 5 /\ Len(TrimStartZeros(esr_input)) <= 25)
    => /\ esr_result.kind = "Ok"
       /\ checksum(esr_input) = Ok(RefCheckDigit(esr_input))
       /\ esr_result.val = TrimStartZeros(esr_input) \o RefCheckDigit(esr_input)
       /\ try_with_checksum(esr_input \o RefCheckDigit(esr_input)).kind = "Ok"

\* A digit string with leading zeros and 25 digits after them went through
\* try_without_checksum.
C3_Witness ==
    /\ esr_op = "try_without_checksum"
    /\ AllDigits(esr_input)
    /\ Len(esr_input) = 27
    /\ Len(TrimStartZeros(esr_input)) = 25
    /\ esr_result.kind = "Ok"

\* The classification C4 states, on the input without spaces and leading zeros.
C4_Classify(n) ==
    IF Len(n) > 27 \/ Len(n) < 5 THEN "InvalidLength"
    ELSE IF ~AllDigits(n) THEN "InvalidFormat"
    ELSE IF RefCheckDigit(SubSeq(n, 1, Len(n) - 1)) # <<n[Len(n)]>> THEN "InvalidChecksum"
    ELSE ""

\* C4 as stated, on ASCII inputs: try_with_checksum answers InvalidLength, else
\* InvalidFormat when any character, the last one included, is not a digit,
\* else InvalidChecksum, else success.
C4_Claim ==
    (esr_op = "try_with_checksum" /\ Range(esr_input) \cap MultiByte = {})
    => /\ esr_result.kind \in {"Ok", "Err"}
       /\ esr_result.err = C4_Classify(EsrStrip(esr_input))

\* C6: checksum() is the table recurrence c = table[(d + c) mod 10] from c = 0,
\* answered as (10 - c) mod 10, on every digit string ("24075237" gives 1), and
\* InvalidFormat when a character is not a decimal digit.
C6_ChecksumIsTableRecurrence ==
    esr_op = "checksum"
    => /\ AllDigits(esr_input) => esr_result = Ok(RefCheckDigit(esr_input))
       /\ ~AllDigits(esr_input) => esr_result = Err("InvalidFormat")
       /\ esr_input = <<"2", "4", "0", "7", "5", "2", "3", "7">>
            => esr_result = Ok(<<"1">>)

\* checksum() ran on "24075237".
C6_Witness ==
    /\ esr_op = "checksum"
    /\ esr_input = <<"2", "4", "0", "7", "5", "2", "3", "7">>
    /\ esr_result.kind = "Ok"

----------------------------------------------------------------------------
(* Properties of iso11649.rs *)

\* 10^k mod 97
RECURSIVE Pow10Mod97(_)
Pow10Mod97(k) == IF k = 0 THEN 1 ELSE (10 * Pow10Mod97(k - 1)) % 97

\* The remainder modulo 97 of the integer a decimal digit string denotes, as
\* the sum of its digits weighted by the powers of ten.
RECURSIVE WeightedSum97(_)
WeightedSum97(digits) ==
    IF digits = <<>> THEN 0
    ELSE (ToDigit10(Head(digits)) * Pow10Mod97(Len(digits) - 1)
            + WeightedSum97(Tail(digits))) % 97

\* The integer a short decimal digit string denotes.
RECURSIVE DecimalValue(_)
DecimalValue(digits) ==
    IF digits = <<>> THEN 0
    ELSE 10 * DecimalValue(SubSeq(digits, 1, Len(digits) - 1))
            + ToDigit10(digits[Len(digits)])

\* Each character replaced by its base-36 value written in decimal.
RECURSIVE Base36AsDecimal(_)
Base36AsDecimal(s) ==
    IF s = <<>> THEN <<>>
    ELSE LET v == ToDigit36(Head(s))
         IN  (IF v < 10 THEN <<DIGITS[v + 1]>>
              ELSE <<DIGITS[(v \div 10) + 1], DIGITS[(v % 10) + 1]>>)
             \o Base36AsDecimal(Tail(s))

\* The ISO 7064 MOD 97-10 check of a reference: first four characters moved
\* to the end, the whole read as a decimal integer, congruent to 1 modulo 97.
PassesMod97(ref) ==
    /\ Len(ref) >= 4
    /\ \A i \in DOMAIN ref : IsDigit36(ref[i])
    /\ WeightedSum97(Base36AsDecimal(SubSeq(ref, 5, Len(ref)) \o SubSeq(ref, 1, 4))) = 1

\* The normalized text: ASCII transliteration, upper case, base-36 characters.
Normalized(text) ==
    LET ascii == deunicode(text)
        kept == SelectSeq(ascii, IsDigit36)
    IN  [i \in DOMAIN kept |->
            IF kept[i] \in Range(LOWER) THEN UPPER[IndexOf(kept[i], LOWER)] ELSE kept[i]]

Take(s, n) == IF Len(s) <= n THEN s ELSE SubSeq(s, 1, n)

\* C5: with_checksum() returns a string for every input, and the string
\* passes the MOD 97-10 check.
C5_WithChecksumPassesMod97 ==
    iso_op = "with_checksum"
    => /\ iso_result.kind = "Ok"
       /\ PassesMod97(iso_result.val)

\* with_checksum() ran on a text with characters outside ASCII and with more
\* than 21 base-36 characters.
C5_Witness ==
    /\ iso_op = "with_checksum"
    /\ iso_result.kind = "Ok"
    /\ Range(iso_input) \cap MultiByte # {}
    /\ Len(Normalized(iso_input)) > 21

\* C7: with_checksum() is "RF", then 98 - (N mod 97) in two digits, then the
\* body (the normalized text cut to 21 characters), N being the integer that
\* the body followed by RF00 denotes; and the digit-by-digit remainder is the
\* remainder of the whole integer, for long digit strings too.
C7_WithChecksumFormat ==
    iso_op = "with_checksum"
    => LET body == Take(Normalized(iso_input), 21)
           digits == Base36AsDecimal(body \o <<"R", "F", "0", "0">>)
           cc == 98 - WeightedSum97(digits)
       IN  /\ iso_result.kind = "Ok"
           /\ Len(iso_result.val) = 4 + Len(body)
           /\ iso_result.val =
                <<"R", "F", DIGITS[(cc \div 10) + 1], DIGITS[(cc % 10) + 1]>> \o body
           /\ rem(digits, 97) = WeightedSum97(digits)
           /\ Len(digits) <= 9 => rem(digits, 97) = DecimalValue(digits) % 97
           /\ iso_input = <<"a">> => iso_result.val = <<"R", "F", "2", "5", "A">>

\* with_checksum() ran on a text whose body is cut to 21 characters, so that
\* the integer has more than 40 digits.
C7_Witness ==
    /\ iso_op = "with_checksum"
    /\ iso_result.kind = "Ok"
    /\ Len(Normalized(iso_input)) > 21
    /\ Len(Base36AsDecimal(Take(Normalized(iso_input), 21))) > 40

----------------------------------------------------------------------------
(* Properties of billing_infos *)

\* C1 as stated: every BillingInfos that the public operations return has at
\* most 140 characters, unstructured() and structured() counted together.
C1_Claim ==
    bi # None => OptLen(unstructured(bi[1])) + OptLen(structured(bi[1])) <= 140

\* C2 as stated: the structured string of a built value with a structured
\* field, put after a free text without //S1, is parsed successfully, to a
\* value with the same structured string and the trimmed free text.
C2_Claim ==
    (sw_op = "reparse" /\ ~Contains(sw_arg, <<"/", "/", "S", "1">>))
    => /\ sw_result.kind = "Ok"
       /\ structured(bi[1]) = structured(bi_prev[1])
       /\ unstructured(bi[1]) = Some(Trim(sw_arg))

\* C8: add_unstructured(text) fails with TooLong exactly when the characters
\* of text and of the current structured() exceed 140 together; otherwise the
\* returned value has unstructured() = text, whatever override was there, and
\* the emitter and structured() it had.
C8_AddUnstructured ==
    sw_op = "add_unstructured"
    => LET before == bi_prev[1]
           total == Len(sw_arg) + OptLen(structured(before))
       IN  /\ total > 140 => (sw_result.kind = "Err" /\ sw_result.err = "TooLong")
           /\ total > 140 => bi = bi_prev
           /\ total <= 140 =>
                /\ sw_result.kind = "Ok"
                /\ unstructured(bi[1]) = Some(sw_arg)
                /\ bi[1].emitter = before.emitter
                /\ structured(bi[1]) = structured(before)

\* add_unstructured succeeded at exactly 140 characters, on a value with
\* structured data and with another override.
C8_Witness ==
    /\ sw_op = "add_unstructured"
    /\ sw_result.kind = "Ok"
    /\ structured(bi_prev[1]) # None
    /\ Len(sw_arg) + OptLen(structured(bi_prev[1])) = 140
    /\ bi_prev[1].unstructured_field \notin {None, Some(sw_arg)}

\* The characters of the values of the components in S, where present.
ValuesLen(set, S) ==
    LET n[T \in SUBSET (S \cap DOMAIN set)] ==
            IF T = {} THEN 0
            ELSE LET c == CHOOSE x \in T : TRUE IN Len(set[c]) + n[T \ {c}]
    IN  n[S \cap DOMAIN set]

\* C9 as stated: build() fails with TooLong exactly when the values of the
\* fields other than Unstructured have more than 140 characters together.
C9_Original ==
    sw_op = "build"
    => ((sw_result.kind = "Err" /\ sw_result.err = "TooLong")
            <=> ValuesLen(builder, Range(SwicoComponent) \ {"Unstructured"}) > 140)

\* C9 amended: build() fails with TooLong exactly when the values of all the
\* fields, the Unstructured one and the injected prefix value S1 included,
\* have more than 140 characters together.
C9_Amended ==
    sw_op = "build"
    => ((sw_result.kind = "Err" /\ sw_result.err = "TooLong")
            <=> ValuesLen(builder, Range(SwicoComponent)) > 140)

\* build() failed with TooLong at 141 characters, 138 of them unstructured.
C9_Witness ==
    /\ sw_op = "build"
    /\ sw_result.err = "TooLong"
    /\ ValuesLen(builder, Range(SwicoComponent)) = 141
    /\ ValuesLen(builder, {"Unstructured"}) = 138

\* The structured string C10 describes: //S1 first, then the fields present
\* by ascending id, each as /NN/ followed by its value.
IdsAscending == <<10, 11, 20, 30, 31, 32, 33, 40>>

ComponentOfId(id) == CHOOSE c \in Range(SwicoComponent) : get_id(c) = id

CanonicalString(set) ==
    (IF "Prefix" \in DOMAIN set THEN <<"/", "/">> \o set["Prefix"] ELSE <<>>)
    \o Flatten([k \in DOMAIN IdsAscending |->
            LET id == IdsAscending[k]
                c == ComponentOfId(id)
            IN  IF c \in DOMAIN set
                THEN <<"/", DIGITS[(id \div 10) + 1], DIGITS[(id % 10) + 1], "/">> \o set[c]
                ELSE <<>>])

\* C10: structured() is the prefix and then the fields present in ascending
\* id order, each as delimiter and value, for built and for parsed values.
C10_AscendingOrder ==
    (bi # None /\ bi[1].emitter # None /\ structured(bi[1]) # None)
    => structured(bi[1]) = Some(CanonicalString(bi[1].emitter[1]))

\* A value parsed from a string whose /40/ group comes before its /10/ group.
C10_Witness ==
    /\ sw_op = "from_str"
    /\ sw_result.kind = "Ok"
    /\ {"InvoiceRef", "Conditions"} \subseteq DOMAIN bi[1].emitter[1]
    /\ FindIndex(sw_arg, <<"/", "4", "0", "/">>) < FindIndex(sw_arg, <<"/", "1", "0", "/">>)

----------------------------------------------------------------------------
(* Properties of the parser and of the validator *)

\* Whether s holds a substring /NN/ of two decimal digits with NN outside legal.
HasTagOutside(s, legal) ==
    \E i \in 1..(Len(s) - 3) :
        /\ s[i] = "/" /\ s[i + 3] = "/"
        /\ IsDigit10(s[i + 1]) /\ IsDigit10(s[i + 2])
        /\ 10 * ToDigit10(s[i + 1]) + ToDigit10(s[i + 2]) \notin legal

\* C11 as stated: s1_parser fails with InvalidBeacons exactly when the input
\* holds a /NN/ whose NN is not one of 0, 1, 10, 11, 20, 30, 31, 32, 33, 40.
C11_Original ==
    sw_op = "from_str"
    => LET illegal == HasTagOutside(sw_arg, {0, 1, 10, 11, 20, 30, 31, 32, 33, 40})
       IN  /\ s1_parser(sw_arg).err = "InvalidBeacons" <=> illegal
           /\ Contains(sw_arg, <<"/", "/", "S", "1">>)
                => (sw_result.err = "InvalidBeacons" <=> illegal)

\* C11 amended: s1_parser fails with InvalidBeacons exactly when the input,
\* the free text before //S1 included, holds a /NN/ of two decimal digits whose
\* NN is not one of 10, 11, 20, 30, 31, 32, 33, 40; /00/ and /01/ are rejected
\* like any other unknown tag.
C11_Amended ==
    sw_op = "from_str"
    => LET illegal == HasTagOutside(sw_arg, {10, 11, 20, 30, 31, 32, 33, 40})
       IN  /\ s1_parser(sw_arg).err = "InvalidBeacons" <=> illegal
           /\ Contains(sw_arg, <<"/", "/", "S", "1">>)
                => (sw_result.err = "InvalidBeacons" <=> illegal)

\* from_str failed with InvalidBeacons on an input whose only unknown tag is
\* /01/, in the free text before the marker.
C11_Witness ==
    /\ sw_op = "from_str"
    /\ sw_result.err = "InvalidBeacons"
    /\ SubSeq(sw_arg, 1, 8) = <<"/", "0", "1", "/", "/", "/", "S", "1">>
    /\ ~HasTagOutside(sw_arg, {1, 10, 11, 20, 30, 31, 32, 33, 40})

\* Whether s is a free text without any /NN/ tag followed by the marker //S1
\* and nothing else.
IsFreeTextAndMarker(s) ==
    /\ Len(s) >= 4
    /\ SubSeq(s, Len(s) - 3, Len(s)) = <<"/", "/", "S", "1">>
    /\ ~Contains(SubSeq(s, 1, Len(s) - 4), <<"/", "/", "S", "1">>)
    /\ ~HasTagOutside(s, {})

\* C12: parsing a free text followed by //S1 and no /NN/ group succeeds, and
\* the value's unstructured() is the trimmed free text (none when it is empty)
\* and its structured() is the //S1 prefix alone.
C12_Claim ==
    (sw_op = "from_str" /\ IsFreeTextAndMarker(sw_arg))
    => /\ sw_result.kind = "Ok"
       /\ structured(sw_result.val) = Some(<<"/", "/", "S", "1">>)
       /\ unstructured(sw_result.val) \in
            {Some(Trim(SubSeq(sw_arg, 1, Len(sw_arg) - 4))), None}

\* C13: a construction operation of Esr (try_with_checksum,
\* try_without_checksum) returns a value or a typed error on every input
\* string and never aborts.
C13_Claim ==
    esr_op \in {"try_with_checksum", "try_without_checksum"} => esr_result.kind # "Panic"

\* The value of the only field c of the builder that build() was called on.
BuiltWithOnly(c) == sw_op = "build" /\ DOMAIN builder = {c}

\* A non-negative integer in decimal notation, with an optional plus sign.
IsNonNegativeInteger(s) ==
    LET ds == IF s # <<>> /\ s[1] = "+" THEN Tail(s) ELSE s
    IN  ds # <<>> /\ \A i \in DOMAIN ds : IsDigit10(ds[i])

\* A group of a Conditions value with two numeric subgroups, the second a
\* non-negative integer.
IsConditionGroup(g) ==
    LET sub_groups == Split(g, ":")
    IN  /\ Len(sub_groups) = 2
        /\ ParsesF32(sub_groups[1])
        /\ IsNonNegativeInteger(sub_groups[2])

ConditionsAccepted(v) ==
    /\ "," \notin Range(v)
    /\ \A k \in DOMAIN Split(v, ";") : IsConditionGroup(Split(v, ";")[k])

\* C14: a Conditions value is accepted exactly when it holds no comma and each
\* group has two numeric subgroups, the second any non-negative integer; a
\* comma gives InvalidDecimalPoint, and a group with another number of numeric
\* subgroups or a second subgroup that is no non-negative integer gives
\* InvalidConditions.
C14_Claim ==
    BuiltWithOnly("Conditions")
    => LET v == builder["Conditions"]
       IN  /\ sw_result.kind = "Ok" <=> ConditionsAccepted(v)
           /\ "," \in Range(v) => sw_result.err = "InvalidDecimalPoint"
           /\ ("," \notin Range(v) /\ ~ConditionsAccepted(v)
                 /\ \A k \in DOMAIN Split(v, ";") :
                        \A j \in DOMAIN Split(Split(v, ";")[k], ":") :
                            ParsesF32(Split(Split(v, ";")[k], ":")[j]))
                => sw_result.err = "InvalidConditions"

\* Six decimal digits YYMMDD that name a date of the calendar.
IsYYMMDD(s) ==
    /\ Len(s) = 6
    /\ \A i \in DOMAIN s : IsDigit10(s[i])
    /\ LET yy == DigitsValue(SubSeq(s, 1, 2))
           mm == DigitsValue(SubSeq(s, 3, 4))
           dd == DigitsValue(SubSeq(s, 5, 6))
       IN  /\ mm \in 1..12
           /\ dd \in 1..DaysInMonth(IF yy < 70 THEN 2000 + yy ELSE 1900 + yy, mm)

DateAccepted(v) ==
    \/ IsYYMMDD(v)
    \/ Len(v) = 12 /\ IsYYMMDD(SubSeq(v, 1, 6)) /\ IsYYMMDD(SubSeq(v, 7, 12))

\* C15: a DocDate or VatDate value is accepted exactly when it has 6 or 12
\* characters and each chunk of 6 is a date of the calendar written YYMMDD;
\* another length gives InvalidDateFormat, an invalid chunk a date-parse error.
C15_Claim ==
    \A c \in {"DocDate", "VatDate"} :
        BuiltWithOnly(c)
        => /\ sw_result.kind = "Ok" <=> DateAccepted(builder[c])
           /\ Len(builder[c]) \notin {6, 12} => sw_result.err = "InvalidDateFormat"
           /\ (Len(builder[c]) \in {6, 12} /\ ~DateAccepted(builder[c]))
                => sw_result.err = "FromNaiveDateParse"

\* The scan from left to right: a backslash takes the next character, which
\* is a backslash or a slash, with it; a slash met by the scan is an error.
RECURSIVE EscapesOk(_)
EscapesOk(s) ==
    IF s = <<>> THEN TRUE
    ELSE IF s[1] = "/" THEN FALSE
    ELSE IF s[1] = "\\"
         THEN Len(s) >= 2 /\ s[2] \in {"\\", "/"} /\ EscapesOk(SubSeq(s, 3, Len(s)))
    ELSE EscapesOk(Tail(s))

\* C16: an InvoiceRef or ClientRef value is accepted exactly when, scanning
\* from left to right, every backslash is followed by a backslash or a slash
\* that it consumes and no slash is met outside such a pair; any other value
\* fails with InvalidEscapeChar.
C16_EscapeScan ==
    \A c \in {"InvoiceRef", "ClientRef"} :
        BuiltWithOnly(c)
        => /\ sw_result.kind = "Ok" <=> EscapesOk(builder[c])
           /\ sw_result.kind # "Ok"
                => sw_result.kind = "Err" /\ sw_result.err = "InvalidEscapeChar"
           /\ invalid_chars(builder[c]).kind = sw_result.kind

\* build() rejected a value that ends in a lone backslash after an escaped
\* pair, and accepted nothing.
C16_Witness ==
    /\ BuiltWithOnly("InvoiceRef")
    /\ builder["InvoiceRef"] = <<"a", "\\", "/", "\\">>
    /\ sw_result.err = "InvalidEscapeChar"
    /\ bi = <<>>

----------------------------------------------------------------------------
(* Properties of BillingInfos and of the builder *)

\* The Unstructured entry of the emitter's field set, if there is one.
EmitterUnstructured(self) ==
    IF self.emitter # <<>> /\ "Unstructured" \in DOMAIN self.emitter[1]
    THEN <<self.emitter[1]["Unstructured"]>>
    ELSE <<>>

\* The free text of a raw string: what precedes the first //S1, trimmed.
FreeTextOf(raw) ==
    Trim(SubSeq(raw, 1, Min({i \in 1..(Len(raw) - 3) :
                                SubSeq(raw, i, i + 3) = <<"/", "/", "S", "1">>}) - 1))

\* C17: unstructured() is the override when add_unstructured set one, else
\* the Unstructured field of the emitter (the builder's, or the trimmed free
\* text that was parsed), else none; add_unstructured leaves the emitter as
\* it was.
C17_UnstructuredHierarchy ==
    bi # <<>>
    => /\ unstructured(bi[1]) =
            IF bi[1].unstructured_field # <<>> THEN bi[1].unstructured_field
            ELSE EmitterUnstructured(bi[1])
       /\ (sw_op = "add_unstructured" /\ sw_result.kind = "Ok")
            => /\ unstructured(bi[1]) = <<sw_arg>>
               /\ bi[1].emitter = bi_prev[1].emitter
               /\ EmitterUnstructured(bi[1]) = EmitterUnstructured(bi_prev[1])
       /\ (sw_op = "add_unstructured" /\ sw_result.kind # "Ok") => bi = bi_prev
       /\ sw_op = "new" => unstructured(bi[1]) = <<>>
       /\ sw_op = "build"
            => unstructured(bi[1]) =
                 IF "Unstructured" \in DOMAIN builder
                 THEN <<builder["Unstructured"]>> ELSE <<>>
       /\ sw_op = "from_str" => unstructured(bi[1]) = <<FreeTextOf(sw_arg)>>
       /\ (sw_op = "reparse" /\ sw_result.kind = "Ok")
            => unstructured(bi[1]) = <<Trim(sw_arg)>>

\* An override was set on a built value whose emitter holds another
\* unstructured text: unstructured() is the override, the emitter keeps its
\* text.
C17_Witness ==
    /\ sw_op = "add_unstructured"
    /\ sw_result.kind = "Ok"
    /\ bi # <<>>
    /\ EmitterUnstructured(bi[1]) = <<<<"M", "s", "g">>>>
    /\ sw_arg # <<"M", "s", "g">>
    /\ unstructured(bi[1]) = <<sw_arg>>
    /\ bi_prev # <<>> /\ unstructured(bi_prev[1]) = <<<<"M", "s", "g">>>>

\* The last value that a sequence of calls leaves for every tag it names.
LastWrites(cs) ==
    [c \in {cs[i][1] : i \in DOMAIN cs} |->
        cs[Max({i \in DOMAIN cs : cs[i][1] = c})][2]]

\* The fields of a set without the injected prefix.
WithoutPrefix(set) == [c \in DOMAIN set \ {"Prefix"} |-> set[c]]

\* C18: the outcome of build() is determined by the last value that the
\* setter calls left for every tag: the builder holds exactly those values
\* (a later call overwrites, no call is refused, the order of the tags is
\* irrelevant), and build() returns what it returns on that set, error or
\* value with its structured() and unstructured() strings.
C18_LastWriteWins ==
    /\ WithoutPrefix(builder) = LastWrites(calls)
    /\ sw_op = "set" => sw_result.kind = "None"
    /\ sw_op = "build"
        => LET outcome == build(WithPrefix(LastWrites(calls)))
           IN  /\ sw_result = Ended(outcome)
               /\ outcome.kind = "Ok"
                    => /\ bi # <<>>
                       /\ structured(bi[1]) = structured(outcome.val)
                       /\ unstructured(bi[1]) = unstructured(outcome.val)

\* build() succeeded after a tag was set twice with different values and
\* another tag was set in between.
C18_Witness ==
    /\ sw_op = "build"
    /\ sw_result.kind = "Ok"
    /\ calls = << <<"InvoiceRef", <<>>>>, <<"DocDate", <<"2", "4", "0", "6", "3", "0">>>>,
                  <<"InvoiceRef", <<"1">>>> >>
    /\ structured(bi[1]) =
         << <<"/", "/", "S", "1", "/", "1", "0", "/", "1", "/", "1", "1", "/",
              "2", "4", "0", "6", "3", "0">> >>

----------------------------------------------------------------------------
(* Properties of esr.rs: the check digit and the display *)

\* C19: when try_with_checksum accepted a reference, the reference with its
\* last digit replaced by any other decimal digit is refused with
\* InvalidChecksum.
C19_OtherCheckDigitRefused ==
    (esr_op = "try_with_checksum" /\ esr_result.kind = "Ok")
    => LET number == esr_result.val
           body == SubSeq(number, 1, Len(number) - 1)
       IN  /\ IsDigit10(number[Len(number)])
           /\ \A i \in 1..10 :
                DIGITS[i] # number[Len(number)]
                => try_with_checksum(body \o <<DIGITS[i]>>) = Err("InvalidChecksum")

\* try_with_checksum accepted 240752371, the reference of the unit test, and
\* refuses 240752372.
C19_Witness ==
    /\ esr_op = "try_with_checksum"
    /\ esr_result = Ok(<<"2", "4", "0", "7", "5", "2", "3", "7", "1">>)
    /\ try_with_checksum(<<"2", "4", "0", "7", "5", "2", "3", "7", "2">>).err
         = "InvalidChecksum"

\* C20: the display string of a constructed Esr has 32 characters, spaces at
\* positions 3, 9, 15, 21 and 27 and digits elsewhere (groups of 2, 5, 5, 5, 5
\* and 5); its digits are the stored number after as many zeros as make 27
\* digits, and without the spaces and the leading zeros it is to_raw(), the
\* stored number.
C20_Display ==
    esr_shown # <<>>
    => LET shown == esr_shown[1]
           number == esr_result.val
       IN  /\ Len(shown) = 32
           /\ \A i \in 1..Len(shown) :
                IF i \in {3, 9, 15, 21, 27} THEN shown[i] = " " ELSE IsDigit10(shown[i])
           /\ Len(number) <= 27
           /\ RemoveSpaces(shown) = Rep("0", 27 - Len(number)) \o number
           /\ TrimStartZeros(RemoveSpaces(shown)) = number

\* The reference 240752371 was constructed from 24075237 and displayed as
\* 00 00000 00000 00000 02407 52371.
C20_Witness ==
    /\ esr_op = "try_without_checksum"
    /\ esr_result = Ok(<<"2", "4", "0", "7", "5", "2", "3", "7", "1">>)
    /\ esr_shown =
         << <<"0", "0", " ", "0", "0", "0", "0", "0", " ", "0", "0", "0", "0", "0", " ",
              "0", "0", "0", "0", "0", " ", "0", "2", "4", "0", "7", " ",
              "5", "2", "3", "7", "1">> >>

----------------------------------------------------------------------------
(* Properties of iso11649.rs: what the reference depends on *)

\* Texts that differ from text only in letter case, in spaces and dashes, in
\* diacritics, or after the 21st kept character.
ToLower(text) ==
    [i \in DOMAIN text |->
        IF text[i] \in Range(UPPER) THEN LOWER[IndexOf(text[i], UPPER)] ELSE text[i]]

Unaccented(text) ==
    Flatten([i \in DOMAIN text |->
        IF text[i] = "e_acute" THEN <<"E">>
        ELSE IF text[i] = "sharp_s" THEN <<"s", "S">>
        ELSE <<text[i]>>])

Accented(text) ==
    [i \in DOMAIN text |-> IF text[i] \in {"e", "E"} THEN "e_acute" ELSE text[i]]

Inserted(text, i, ch) == SubSeq(text, 1, i) \o <<ch>> \o SubSeq(text, i + 1, Len(text))

SameReferenceTexts(text) ==
    {ToLower(text), Unaccented(text), Accented(text),
     SelectSeq(text, LAMBDA ch : ch \notin {" ", "-"})}
    \cup {Inserted(text, i, ch) : i \in {0, Len(text) \div 2, Len(text)},
                                  ch \in {" ", "-", "/"}}
    \cup (IF Len(Normalized(text)) >= 21
          THEN {text \o tail : tail \in {<<"z">>, <<"9", "e_acute">>, <<" ", "A">>}}
               \cup {Take(Normalized(text), 21)}
          ELSE {})

\* C21: with_checksum() depends only on the first 21 characters of the
\* normalized text: texts that differ in letter case, in spaces or other
\* non-alphanumeric characters, in diacritics or after the 21st kept character
\* give the same reference, whose body has at most 21 characters.
C21_DependsOnNormalizedPrefix ==
    iso_op = "with_checksum"
    => /\ iso_result.kind = "Ok"
       /\ Len(iso_result.val) <= 4 + 21
       /\ SubSeq(iso_result.val, 5, Len(iso_result.val)) = Take(Normalized(iso_input), 21)
       /\ \A other \in SameReferenceTexts(iso_input) :
            with_checksum(Iso11649_new(other)) = iso_result

\* with_checksum() ran on a text with a lower-case letter, a character with a
\* diacritic and more than 21 kept characters.
C21_Witness ==
    /\ iso_op = "with_checksum"
    /\ iso_result.kind = "Ok"
    /\ "e_acute" \in Range(iso_input)
    /\ Range(iso_input) \cap {"a", "z"} # {}
    /\ Len(Normalized(iso_input)) = 22
    /\ Len(iso_result.val) = 25
    /\ Unaccented(iso_input) # iso_input

\* C22: the validating constructor removes space, '-', '.', ',', '/' and ':'
\* and then fails with InvalidLength when the length is outside 5..25, fails
\* when the text does not start with RF, fails with InvalidCharacters when a
\* character is not ASCII alphanumeric, fails with InvalidChecksum when the
\* MOD 97-10 value is not 1, and succeeds otherwise; it accepts every
\* reference of at least 5 characters that with_checksum() produces.
C22_StrictConstructor ==
    /\ iso_op = "try_new"
        => LET number == SelectSeq(iso_input,
                                   LAMBDA ch : ch \notin {" ", "-", ".", ",", "/", ":"})
           IN  iso_result =
                 IF Len(number) \notin 5..25 THEN Err("InvalidLength")
                 ELSE IF Take(number, 2) # <<"R", "F">> THEN Err(iso_result.err)
                 ELSE IF \E i \in DOMAIN number :
                            number[i] \notin Range(DIGITS) \cup Range(LOWER) \cup Range(UPPER)
                      THEN Err("InvalidCharacters")
                 ELSE IF ~PassesMod97(number) THEN Err("InvalidChecksum")
                 ELSE Ok(number)
    /\ (iso_op = "with_checksum" /\ Len(iso_result.val) >= 5)
        => Iso11649_try_new(iso_result.val) = Ok(iso_result.val)

\* The validating constructor accepted RF18 5390 0754 7034, given with its
\* spaces.
C22_Witness ==
    /\ iso_op = "try_new"
    /\ Len(iso_input) = 19
    /\ " " \in Range(iso_input)
    /\ iso_result.kind = "Ok"
    /\ iso_result.val = <<"R", "F", "1", "8", "5", "3", "9", "0", "0", "7", "5", "4",
                          "7", "0", "3", "4">>

----------------------------------------------------------------------------
(* Properties of the paragraphs *)

\* The lines as_paragraph() returned.
ShownLines == IF sw_result.val = None THEN <<>> ELSE sw_result.val[1]

\* The text of the value that the folder is given, <<>> when there is none.
FoldedText == IF unstructured(bi[1]) = None THEN <<>> ELSE unstructured(bi[1])[1]

\* The structured data of the value, <<>> when there is none.
StructuredText == IF structured(bi[1]) = None THEN <<>> ELSE structured(bi[1])[1]

\* The number of lines at the end of the paragraph that hold the structured
\* data: the fewest whose concatenation is structured().
StructuredLineCount ==
    LET holds == {k \in 0..Len(ShownLines) :
                    Flatten(SubSeq(ShownLines, Len(ShownLines) - k + 1, Len(ShownLines)))
                        = StructuredText}
    IN  IF holds = {} THEN 0 ELSE Min(holds)

\* The lines of the paragraph before those of the structured data.
FoldedLines == SubSeq(ShownLines, 1, Len(ShownLines) - StructuredLineCount)

StructuredLinesShown ==
    SubSeq(ShownLines, Len(ShownLines) - StructuredLineCount + 1, Len(ShownLines))

Folded == sw_op = "as_paragraph" /\ unstructured(bi[1]) # None

\* The indexes of the break characters of s whose offset lies strictly
\* between m - c and m + c, the length and the offsets being those of
\* str::len and str::find.
MiddleBreaks(s) ==
    LET n == ByteLength(s)
        m == n \div 2
        c == (n - m) \div 2
    IN  {i \in DOMAIN s : /\ s[i] \in {";", "/", "\\", ",", ".", " "}
                          /\ ByteOffset(s, i) > m - c
                          /\ ByteOffset(s, i) < m + c}

\* C23: a text of 70 or more in which a break character occurs strictly
\* inside the middle window is folded into exactly two lines: the text up to
\* and including the first break character of the window, and the rest, both
\* trimmed.
C23_Claim ==
    (Folded /\ ByteLength(FoldedText) >= 70 /\ MiddleBreaks(FoldedText) # {})
    => FoldedLines = <<Trim(SubSeq(FoldedText, 1, Min(MiddleBreaks(FoldedText)))),
                       Trim(SubSeq(FoldedText, Min(MiddleBreaks(FoldedText)) + 1,
                                   Len(FoldedText)))>>

\* C24: a text of fewer than 70 characters, multi-byte ones counting as one
\* each, is folded into exactly one line, the text itself.
C24_Claim ==
    (Folded /\ Len(FoldedText) < 70) => FoldedLines = <<FoldedText>>

\* C25: the structured data takes exactly N lines at the end of the
\* paragraph, N being 1 for a total below 70 characters, 2 from 70 to 124 and
\* 3 from 125 to 140, and the lines concatenated are structured().
C25_Claim ==
    (sw_op = "as_paragraph" /\ structured(bi[1]) # None /\ Len(StructuredText) <= 140)
    => /\ Flatten(StructuredLinesShown) = StructuredText
       /\ Len(StructuredLinesShown) =
            IF Len(StructuredText) < 70 THEN 1
            ELSE IF Len(StructuredText) < 125 THEN 2 ELSE 3

ParsedWithoutFreeText ==
    /\ bi[1].emitter # None
    /\ bi[1].unstructured_field = None
    /\ Contains(sw_arg, <<"/", "/", "S", "1">>)
    /\ \A i \in 1..(FindIndex(sw_arg, <<"/", "/", "S", "1">>) - 1) : sw_arg[i] = " "

\* C30: a value parsed from a string without free text before the marker has
\* no unstructured text, and its paragraph is the lines of the structured
\* data alone, the first one not empty.
C30_Claim ==
    (sw_op = "as_paragraph" /\ ParsedWithoutFreeText)
    => /\ unstructured(bi[1]) = None
       /\ ShownLines # <<>>
       /\ ShownLines[1] # <<>>
       /\ Flatten(ShownLines) = StructuredText

----------------------------------------------------------------------------
(* Properties of the parser and of the prefix *)

\* The text after the first //S1 of raw.
RegionOf(raw) == SubSeq(raw, FindIndex(raw, <<"/", "/", "S", "1">>) + 4, Len(raw))

\* The tags /NN/ of the parsed components that occur in region, each at the
\* index of its first occurrence.
LocatedTags(region) ==
    {k \in DOMAIN for_parsing : Contains(region, Delimiter(for_parsing[k]))}

TagIndex(region, k) == FindIndex(region, Delimiter(for_parsing[k]))

\* The text of region from the tag k up to the next located tag, or to the
\* end, without the leading delimiter of k.
ValueAfterTag(region, k) ==
    LET later == {TagIndex(region, q) : q \in LocatedTags(region)}
                    \cap {i \in DOMAIN region : i > TagIndex(region, k)}
        stop == IF later = {} THEN Len(region) ELSE Min(later) - 1
    IN  SubSeq(region, TagIndex(region, k) + Len(Delimiter(for_parsing[k])), stop)

\* C27: the value s1_parser records for a located tag is the text from the
\* tag to the next located tag (or the end) without the tag's leading
\* delimiter, later occurrences of that delimiter kept, and a tag whose
\* value is empty is not in the set; for a text after the marker of less
\* than 256 bytes.
C27_Claim ==
    (/\ sw_op = "from_str"
     /\ Contains(sw_arg, <<"/", "/", "S", "1">>)
     /\ ByteLength(RegionOf(sw_arg)) < 256
     /\ s1_parser(sw_arg).kind = "Ok")
    => \A k \in LocatedTags(RegionOf(sw_arg)) :
            IF ValueAfterTag(RegionOf(sw_arg), k) = <<>>
            THEN for_parsing[k] \notin DOMAIN s1_parser(sw_arg).val
            ELSE /\ for_parsing[k] \in DOMAIN s1_parser(sw_arg).val
                 /\ s1_parser(sw_arg).val[for_parsing[k]] = ValueAfterTag(RegionOf(sw_arg), k)

\* C28: the structured string of a value that build() returned for a builder
\* with a field other than Unstructured starts with //S1.
C28_Claim ==
    (/\ sw_op = "build"
     /\ sw_result.kind = "Ok"
     /\ DOMAIN builder \ {"Unstructured", "Prefix"} # {})
    => /\ structured(bi[1]) # None
       /\ Len(structured(bi[1])[1]) >= 4
       /\ SubSeq(structured(bi[1])[1], 1, 4) = <<"/", "/", "S", "1">>

\* The located tags by their byte offsets in region, not reduced.
TrueIndexes(region) ==
    [x \in {ByteOffset(region, TagIndex(region, k)) : k \in LocatedTags(region)} |->
        for_parsing[CHOOSE k \in LocatedTags(region) :
                        ByteOffset(region, TagIndex(region, k)) = x]]

\* C29: s1_parser returns what the located tags, ordered by their true byte
\* offsets in the text after the marker and cut at these offsets, give: no
\* offset is reduced modulo 256 and no tag is lost, whatever the length of
\* the text.
C29_Claim ==
    (/\ sw_op = "from_str"
     /\ Contains(sw_arg, <<"/", "/", "S", "1">>)
     /\ invalid_beacons(sw_arg).kind = "Ok")
    => s1_parser(sw_arg) =
         ParseIndexed(Trim(SubSeq(sw_arg, 1, FindIndex(sw_arg, <<"/", "/", "S", "1">>) - 1)),
                      RegionOf(sw_arg), TrueIndexes(RegionOf(sw_arg)))

====
